---------------------------- MODULE Spec2Model ----------------------------
(***************************************************************************)
(* Model of the whisperx-transcription watcher daemon:                     *)
(*   src/watcher.py       TranscriptionHandler (ingestion engine)          *)
(*   src/daemon_state.py  StateManager (state store)                       *)
(*                                                                         *)
(* A filesystem callback (_process_file) is cut at the points where the    *)
(* code blocks: the one-second sleeps of the stability wait, the ffprobe / *)
(* notification subprocesses, and the transcription subprocess.  The code  *)
(* between two blocking points is one action.                              *)
(***************************************************************************)
EXTENDS Integers, Sequences, FiniteSets, TLC

(***************************************************************************)
(* Bounds of the model                                                     *)
(***************************************************************************)
\* number of filesystem events delivered to the handler in one run
MaxEvents == 2
\* file sizes range over 0..MaxSize
MaxSize == 2
\* max_wait of _wait_for_file_stable (30 in watcher.py:292), scaled down
MaxWait == 5
\* history cap (50 in daemon_state.py:288), scaled down
HistoryCap == 2
\* entries of the history loaded from history.json at construction
MaxLoaded == 1
\* mutator calls in a run of the StateManager alone
MaxOps == 3
\* entries of "transcripts" in a history.json met at construction
MaxItems == 2
\* history entries in the snapshot sent on connect (10 in
\* daemon_state.py:329), scaled down with HistoryCap
SnapshotCap == 1
\* events broadcast in a run of the server loop
MaxBroadcasts == 2
\* history entries in the reply to a history request (20 in
\* daemon_state.py:360), scaled down with HistoryCap
ReplyCap == 1
\* lines a client sends on its connection
MaxRequests == 2

(***************************************************************************)
(* Program constants                                                       *)
(***************************************************************************)
\* watcher.py:302  "if stable_count >= 3"
StableNeeded == 3
\* watcher.py:294  "last_size = -1"
InitialLastSize == -1

(***************************************************************************)
(* Paths and names                                                         *)
(***************************************************************************)
PathA == [stem |-> "a", suffix |-> ".wav"]
PathB == [stem |-> "a_1", suffix |-> ".wav"]
PathT == [stem |-> "notes", suffix |-> ".txt"]
NoPath == [stem |-> "", suffix |-> ""]

Paths == {PathA, PathB, PathT}

\* Path.name
Name(p) == p.stem \o p.suffix

\* str.lower() on the suffixes that occur
Lower(s) ==
    CASE s = ".WAV" -> ".wav"
      [] s = ".TXT" -> ".txt"
      [] OTHER -> s

SUPPORTED_FORMATS == {".m4a", ".mp4", ".mov", ".wav", ".mp3", ".flac", ".ogg"}

IsSupported(p) == Lower(p.suffix) \in SUPPORTED_FORMATS

AudioPaths == {p \in Paths : IsSupported(p)}


(***************************************************************************)
(* State                                                                   *)
(***************************************************************************)
VARIABLES
    files,       \* incoming directory: per audio path, the file and its marker
    archive,     \* archive directory: set of [name, content]
    events,      \* filesystem events queued for the handler (paths)
    delivered,   \* per path: number of events delivered so far
    spaced,      \* paths with an event delivered after the earlier ones of
                 \* the path had been handled
    cb,          \* per callback thread: position and locals of _process_file
    processing,  \* TranscriptionHandler.processing_files
    processed,   \* TranscriptionHandler.processed_files
    stats,       \* TranscriptionHandler.stats
    store,       \* StateManager: _state, _history, state.json, history.json
    ids,         \* number of history ids (uuid4) drawn so far
    dispatches,  \* per path: invocations of the transcription subprocess
    emitted,     \* the events handed over for broadcast, in order
    disk0,       \* state.json and history.json as StateManager() found them
    call,        \* the latest direct call of the StateManager and how it ended
    clients,     \* StateManager._clients: the writers, in list order
    conns,       \* per client: its connection and its _handle_client task
    tasks,       \* the broadcast coroutines that are suspended
    mut,         \* the callback thread's position inside a sync mutator
    down,        \* run_daemon: the listener, the endpoint and PID files and
                 \* the position of the shutdown (watcher.py:542-549)
    bridge,      \* TranscriptionHandler.state_manager and .event_loop, and
                 \* the coroutines handed to the loop that have not run yet
    run          \* the result document a finished subprocess left, what
                 \* _run_transcription returned and what was recorded

vars == <<files, archive, events, delivered, spaced, cb, processing, processed,
          stats, store, ids, dispatches, emitted, disk0, call, clients, conns,
          tasks, mut, down, bridge, run>>

\* callback threads: thread 1 is the observer's dispatcher thread
Threads == {1, 2}

(***************************************************************************)
(* StateManager (daemon_state.py)                                          *)
(***************************************************************************)
NoJob == [filename |-> ""]
NoError == "<none>"

\* text of the OSError of a failed Path.write_text
DiskErrorText == "[Errno 28] No space left on device"

\* seq[:n]
Take(seq, n) == SubSeq(seq, 1, IF Len(seq) < n THEN Len(seq) ELSE n)

\* CompletedTranscript built by set_completed_sync / on_transcription_complete
CompletedEntry(id, filename) ==
    [id |-> id, original_filename |-> filename, success |-> TRUE,
     error |-> NoError]

\* CompletedTranscript built by set_failed_sync / on_transcription_failed
FailedEntry(id, filename, error) ==
    [id |-> id, original_filename |-> filename, success |-> FALSE,
     error |-> error]

\* the document _save_state serialises
StateDoc(s) ==
    [status |-> s.status, current |-> s.current, queue |-> s.queue,
     error_message |-> s.error_message]

\* A mutator's result: the store it leaves and whether it raised.
\* wrote = FALSE: Path.write_text raised OSError, which nothing catches.
_save_history(s, wrote) ==
    IF wrote
    THEN [s |-> [s EXCEPT !.history_file = Take(s.history, HistoryCap)],
          raised |-> FALSE]
    ELSE [s |-> s, raised |-> TRUE]

\* (mutant) nothing is written and nothing is raised
_save_state_skipped(s, wrote) == [s |-> s, raised |-> FALSE]

_save_state(s, wrote) ==
    IF wrote
    THEN [s |-> [s EXCEPT !.state_file = StateDoc(s)], raised |-> FALSE]
    ELSE [s |-> s, raised |-> TRUE]

set_idle(s, wrote) ==
    _save_state([s EXCEPT !.status = "idle", !.current = NoJob,
                          !.error_message = NoError], wrote)

set_transcribing_sync(s, filename, wrote) ==
    _save_state([s EXCEPT !.status = "transcribing",
                          !.current = [filename |-> filename],
                          !.error_message = NoError], wrote)

\* update_queue (lines 240-243)
update_queue(s, queue, wrote) == _save_state([s EXCEPT !.queue = queue], wrote)

\* (mutant) the insert without the truncation
PrependNoCap(history, entry) == <<entry>> \o history

\* self._history.insert(0, transcript); self._history = self._history[:50]
Prepend(history, entry) == Take(<<entry>> \o history, HistoryCap)

set_completed_sync(s, id, filename, wroteH, wroteS) ==
    LET r == _save_history(
                 [s EXCEPT !.history = Prepend(s.history,
                                               CompletedEntry(id, filename))],
                 wroteH)
    IN  IF r.raised THEN r ELSE set_idle(r.s, wroteS)

set_failed_sync(s, id, filename, error, wroteH, wroteS) ==
    LET r == _save_history(
                 [s EXCEPT !.history = Prepend(s.history,
                                               FailedEntry(id, filename, error))],
                 wroteH)
    IN  IF r.raised
        THEN r
        ELSE _save_state([r.s EXCEPT !.status = "error", !.current = NoJob,
                                     !.error_message = error], wroteS)

\* async variants: same state change (the broadcast reaches no client here)
on_transcription_complete(s, id, filename, wroteH, wroteS) ==
    LET r == _save_history(
                 [s EXCEPT !.history = Prepend(s.history,
                                               CompletedEntry(id, filename))],
                 wroteH)
    IN  IF r.raised
        THEN r
        ELSE _save_state([r.s EXCEPT !.status = "idle", !.current = NoJob],
                         wroteS)

on_transcription_failed(s, id, filename, error, wroteH, wroteS) ==
    set_failed_sync(s, id, filename, error, wroteH, wroteS)

\* StateManager.__init__: _load_history, then set_idle.  loaded is the
\* content of history.json (written by an earlier run), newest first.
NewStore(loaded, wrote) ==
    set_idle([status |-> "idle", current |-> NoJob, queue |-> <<>>,
              error_message |-> NoError, history |-> loaded,
              state_file |-> [status |-> "transcribing",
                              current |-> [filename |-> "stale.wav"],
                              queue |-> <<>>, error_message |-> NoError],
              history_file |-> loaded], wrote).s

\* history.json of an earlier run: n entries, ids -n+1..0, newest first
LoadedHistory(n) ==
    [k \in 1..n |-> IF k % 2 = 1
                    THEN CompletedEntry(1 - k, "old.wav")
                    ELSE FailedEntry(1 - k, "old.wav", "Exit code 1")]

(***************************************************************************)
(* StateManager(): the state directory it finds, _load_history, set_idle   *)
(***************************************************************************)
\* An entry of "transcripts" in history.json, by what CompletedTranscript(**t)
\* does with it: a JSON object with exactly the dataclass's fields, one that
\* lacks a required field, one with a field the dataclass does not have, and
\* a value that is not an object.
EntryKinds == {"valid", "missing_field", "unknown_field", "not_object"}

\* the outcome of CompletedTranscript(**t)
EntryRaises(kind) == kind # "valid"

\* JSON values other than arrays, by type
Scalars == {"null", "number", "string", "object"}

\* history.json: absent, text that is not JSON, or a JSON document: its top
\* level value, the value under "transcripts" of a top level object, and the
\* entries of an array found there
NoItems == <<>>

MissingDoc ==
    [file |-> "missing", top |-> "none", transcripts |-> "none",
     items |-> NoItems]

GarbageDoc ==
    [file |-> "garbage", top |-> "none", transcripts |-> "none",
     items |-> NoItems]

TopLevelDoc(top) ==
    [file |-> "json", top |-> top, transcripts |-> "none", items |-> NoItems]

ObjectDoc(transcripts, items) ==
    [file |-> "json", top |-> "object", transcripts |-> transcripts,
     items |-> items]

ItemLists == UNION {[1..n -> EntryKinds] : n \in 0..MaxItems}

HistoryDocs ==
    {MissingDoc, GarbageDoc}
      \cup {TopLevelDoc(top) : top \in {"null", "number", "string", "array"}}
      \cup {ObjectDoc(v, NoItems) : v \in Scalars \cup {"absent"}}
      \cup {ObjectDoc("array", items) : items \in ItemLists}

\* the document _save_history writes for a history h of valid entries
DocOf(h) == ObjectDoc("array", [k \in 1..Len(h) |-> "valid"])

\* what _load_history leaves in self._history, or the exception that leaves it
NoRaise == [raised |-> FALSE, error |-> NoError]
Raise(text) == [raised |-> TRUE, error |-> text]

AttributeErrorText == "object has no attribute 'get'"

_load_history(doc) ==
    IF doc.file = "missing" THEN [history |-> <<>>, exc |-> NoRaise]
    ELSE IF doc.file = "garbage"              \* json.loads: JSONDecodeError
    THEN [history |-> <<>>, exc |-> NoRaise]
    ELSE IF doc.top # "object"                \* data.get: AttributeError
    THEN [history |-> <<>>, exc |-> Raise(AttributeErrorText)]
    ELSE IF doc.transcripts = "absent"        \* data.get(..., [])
    THEN [history |-> <<>>, exc |-> NoRaise]
    ELSE IF doc.transcripts # "array"         \* iteration or **t: TypeError
    THEN [history |-> <<>>, exc |-> NoRaise]
    ELSE IF \E k \in 1..Len(doc.items) : EntryRaises(doc.items[k])
    THEN [history |-> <<>>, exc |-> NoRaise]
    ELSE [history |-> LoadedHistory(Len(doc.items)), exc |-> NoRaise]

\* state.json as an earlier run may have left it
AbsentState ==
    [status |-> "<absent>", current |-> NoJob, queue |-> <<>>,
     error_message |-> NoError]

StaleStates ==
    {AbsentState,
     [status |-> "idle", current |-> NoJob, queue |-> <<>>,
      error_message |-> NoError],
     [status |-> "transcribing", current |-> [filename |-> "stale.wav"],
      queue |-> <<>>, error_message |-> NoError],
     [status |-> "error", current |-> NoJob, queue |-> <<>>,
      error_message |-> "Exit code 1"]}

Disks == [history_json : HistoryDocs, state_json : StaleStates]

\* the StateManager before __init__ has run
NoStore ==
    [status |-> "<unconstructed>", current |-> NoJob, queue |-> <<>>,
     error_message |-> NoError, history |-> <<>>, state_file |-> AbsentState,
     history_file |-> MissingDoc]

\* (mutant) __init__ without the set_idle() of line 65
StateManager_init_no_idle(disk, wrote) ==
    LET l == _load_history(disk.history_json)
        s0 == [status |-> "idle", current |-> NoJob, queue |-> <<>>,
               error_message |-> NoError, history |-> l.history,
               state_file |-> disk.state_json,
               history_file |-> disk.history_json]
    IN  IF l.exc.raised THEN [s |-> NoStore, exc |-> l.exc]
        ELSE [s |-> s0, exc |-> NoRaise]

\* __init__ (lines 51-65): DaemonState(), _load_history(), set_idle()
StateManager_init(disk, wrote) ==
    LET l == _load_history(disk.history_json)
        s0 == [status |-> "idle", current |-> NoJob, queue |-> <<>>,
               error_message |-> NoError, history |-> l.history,
               state_file |-> disk.state_json,
               history_file |-> disk.history_json]
        r == set_idle(s0, wrote)
    IN  IF l.exc.raised THEN [s |-> NoStore, exc |-> l.exc]
        ELSE [s |-> r.s,
              exc |-> IF r.raised THEN Raise(DiskErrorText) ELSE NoRaise]

\* no direct call made yet
NoCall == [op |-> "none", exc |-> NoRaise]

\* the state directory a store built by NewStore(loaded, TRUE) was built from
DiskOf(loaded) ==
    [history_json |-> DocOf(loaded),
     state_json |-> [status |-> "transcribing",
                     current |-> [filename |-> "stale.wav"],
                     queue |-> <<>>, error_message |-> NoError]]

(***************************************************************************)
(* Filesystem                                                              *)
(***************************************************************************)
NoFile == [exists |-> FALSE, size |-> 0, marker |-> FALSE]

\* Path.exists() of a name in the archive directory
InArchive(arch, name) == \E e \in arch : e.name = name

\* watcher.py:233-238: the collision-safe target name
RECURSIVE ProbeArchive(_, _, _, _)
ProbeArchive(arch, p, archive_path, counter) ==
    IF InArchive(arch, archive_path)
    THEN ProbeArchive(arch, p, p.stem \o "_" \o ToString(counter) \o p.suffix,
                      counter + 1)
    ELSE archive_path

\* (mutant) the target without the probe for a free name
ArchiveTargetNoProbe(arch, p) == Name(p)

ArchiveTarget(arch, p) == ProbeArchive(arch, p, Name(p), 1)

\* shutil.move(src, dst): a rename, which replaces an existing dst
MoveInto(arch, name, content) ==
    {e \in arch : e.name # name} \cup {[name |-> name, content |-> content]}

(***************************************************************************)
(* _wait_for_file_stable (watcher.py:292-312)                              *)
(***************************************************************************)
\* outcome of file_path.stat(): the size, or StatError when it raises OSError
StatError == -2

Stat(f) == IF f.exists THEN f.size ELSE StatError

Min(a, b) == IF a < b THEN a ELSE b

IdleCb ==
    [pc |-> "idle", path |-> NoPath, i |-> 0, last_size |-> InitialLastSize,
     stable_count |-> 0, broke |-> FALSE,
     run |-> 0, okrun |-> 0, sawGone |-> FALSE]

\* Observers of the sample sequence (not read by the code):
\*   run      length of the run of latest polls that all succeeded and read
\*            the same non-zero size
\*   okrun    the same with the failed polls left out of the sequence
\*   sawGone  some poll of this wait failed after an earlier one had found
\*            the file: the path disappeared during the wait
Observe(c, sample) ==
    [c EXCEPT
       !.run = IF sample > 0
               THEN (IF c.run > 0 /\ c.last_size = sample
                     THEN Min(c.run + 1, StableNeeded + 1) ELSE 1)
               ELSE 0,
       !.okrun = IF sample = StatError THEN c.okrun
                 ELSE IF sample > 0
                 THEN (IF c.last_size = sample
                       THEN Min(c.okrun + 1, StableNeeded + 1) ELSE 1)
                 ELSE 0,
       !.sawGone = \/ c.sawGone
                   \/ sample = StatError /\ c.last_size # InitialLastSize]

\* the counter test of line 302
IsStable(stable_count) == stable_count >= StableNeeded

\* (mutant) the size test without "current_size > 0"
SameAsLastAnySize(current_size, last_size) == current_size = last_size

\* the size test of line 300
SameAsLast(current_size, last_size) ==
    current_size = last_size /\ current_size > 0

\* one iteration of the for loop, given what stat() returned
WaitIteration(c, sample) ==
    LET o == Observe(c, sample)
    IN  IF sample = StatError
        THEN [o EXCEPT !.i = c.i + 1]
        ELSE IF SameAsLast(sample, c.last_size)
        THEN IF IsStable(c.stable_count + 1)
             THEN [o EXCEPT !.stable_count = c.stable_count + 1,
                            !.broke = TRUE]
             ELSE [o EXCEPT !.stable_count = c.stable_count + 1,
                            !.last_size = sample, !.i = c.i + 1]
        ELSE [o EXCEPT !.stable_count = 0, !.last_size = sample,
                       !.i = c.i + 1]

(***************************************************************************)
(* TranscriptionHandler._process_file (watcher.py:157-290)                 *)
(***************************************************************************)
\* what one callback step may change, as one value
World ==
    [files |-> files, archive |-> archive, processing |-> processing,
     processed |-> processed, stats |-> stats, store |-> store, ids |-> ids,
     escaped |-> FALSE]

Commit(w) ==
    /\ files' = w.files
    /\ archive' = w.archive
    /\ processing' = w.processing
    /\ processed' = w.processed
    /\ stats' = w.stats
    /\ store' = w.store
    /\ ids' = w.ids

\* texts of the exceptions the code can meet
MissingText == "[Errno 2] No such file or directory"
UnboundText == "cannot access local variable 'archive_path'"
SpawnErrorText == "[Errno 8] Exec format error"

\* self.processing_files.discard(file_key), lines 283 and 290
Discard(w, p) == [w EXCEPT !.processing = w.processing \ {p}]

\* except Exception (lines 285-290).  When set_failed_sync itself raises,
\* the exception leaves _process_file and line 290 is not reached.
HandlerExcept(w, p, text, wroteH, wroteS) ==
    LET r == set_failed_sync(w.store, w.ids + 1, Name(p), text, wroteH, wroteS)
        w1 == [w EXCEPT !.store = r.s, !.ids = w.ids + 1]
    IN  IF r.raised THEN [w1 EXCEPT !.escaped = TRUE] ELSE Discard(w1, p)

\* lines 211-218
UpdateStats(st, p, success) ==
    [st EXCEPT !.total_processed = st.total_processed + 1,
               !.successful = IF success THEN st.successful + 1
                              ELSE st.successful,
               !.last_processed = IF success THEN Name(p)
                                  ELSE st.last_processed,
               !.failed = IF success THEN st.failed ELSE st.failed + 1,
               !.current_file = ""]

\* (mutant) the marker branch without noarchive_marker.unlink()
DisposeKeepMarker(w, p) ==
    IF w.files[p].marker
    THEN IF w.files[p].exists
         THEN [w |-> [w EXCEPT !.files[p].exists = FALSE,
                               !.files[p].size = 0],
               raised |-> FALSE]
         ELSE [w |-> w, raised |-> TRUE]
    ELSE IF w.files[p].exists
         THEN [w |-> [w EXCEPT !.files[p] = NoFile,
                               !.archive = MoveInto(w.archive,
                                               ArchiveTarget(w.archive, p),
                                               Name(p))],
               raised |-> FALSE]
         ELSE [w |-> w, raised |-> TRUE]

\* lines 223-242: delete (marker present) or archive the source.
\* raised: unlink / shutil.move met a missing source.
Dispose(w, p) ==
    IF w.files[p].marker
    THEN IF w.files[p].exists
         THEN [w |-> [w EXCEPT !.files[p] = NoFile], raised |-> FALSE]
         ELSE [w |-> w, raised |-> TRUE]
    ELSE IF w.files[p].exists
         THEN [w |-> [w EXCEPT !.files[p] = NoFile,
                               !.archive = MoveInto(w.archive,
                                               ArchiveTarget(w.archive, p),
                                               Name(p))],
               raised |-> FALSE]
         ELSE [w |-> w, raised |-> TRUE]

\* line 263 reads archive_path, which only the archive branch assigns
PanelRaises(hadMarker) == hadMarker

\* lines 220-266, after a successful run
OnSuccess(w, p, wr) ==
    LET d == Dispose(w, p)
        w1 == [d.w EXCEPT !.processed = d.w.processed \cup {p}]
        r == set_completed_sync(w1.store, w1.ids + 1, Name(p), wr[1], wr[2])
        w2 == [w1 EXCEPT !.store = r.s, !.ids = w1.ids + 1]
    IN  IF d.raised THEN HandlerExcept(d.w, p, MissingText, wr[3], wr[4])
        ELSE IF r.raised THEN HandlerExcept(w2, p, DiskErrorText, wr[3], wr[4])
        ELSE IF PanelRaises(w.files[p].marker)
        THEN HandlerExcept(w2, p, UnboundText, wr[3], wr[4])
        ELSE Discard(w2, p)

\* lines 267-283, after a failed run
OnFailure(w, p, error_msg, wr) ==
    LET r == set_failed_sync(w.store, w.ids + 1, Name(p), error_msg,
                             wr[1], wr[2])
        w1 == [w EXCEPT !.store = r.s, !.ids = w.ids + 1]
    IN  IF r.raised THEN HandlerExcept(w1, p, DiskErrorText, wr[3], wr[4])
        ELSE Discard(w1, p)

\* _run_transcription (lines 314-389): how the subprocess ended, and the
\* (success, result_info["error"]) it returns
Outcomes == {"exit0", "nonzero", "timeout", "raised"}

RunSuccess(outcome) == outcome = "exit0"

RunError(outcome) ==
    CASE outcome = "nonzero" -> "Exit code 1"
      [] outcome = "timeout" -> "Timeout after 2 hours"
      [] outcome = "raised" -> SpawnErrorText
      [] OTHER -> "Unknown error"

\* lines 207-290: the subprocess has ended
AfterRun(w, p, outcome, wr) ==
    LET w1 == [w EXCEPT !.stats = UpdateStats(w.stats, p, RunSuccess(outcome))]
    IN  IF RunSuccess(outcome)
        THEN OnSuccess(w1, p, wr)
        ELSE OnFailure(w1, p, RunError(outcome), wr)

\* where the callback is after such a step
EndPc(w) == IF w.escaped THEN "escaped" ELSE "idle"

(***************************************************************************)
(* The server loop (daemon_state.py:96-113, 124-238, 317-377): one thread, *)
(* the coroutines interleave where they await                              *)
(***************************************************************************)
\* the snapshot of lines 324-330
Snapshot(s) ==
    [event |-> "state", status |-> s.status, current |-> s.current,
     queue |-> s.queue, history |-> Take(s.history, SnapshotCap)]

\* the payloads of lines 139-146, 193-204, 231-238; the timestamp is the
\* tick of a clock that advances with every event
StartedEvent(filename, ts) ==
    [event |-> "started", filename |-> filename, timestamp |-> ts]

CompletedEventOf(id, filename, ts) ==
    [event |-> "completed", id |-> id, filename |-> filename,
     timestamp |-> ts]

FailedEventOf(filename, error, ts) ==
    [event |-> "failed", filename |-> filename, error |-> error,
     timestamp |-> ts]

\* on_transcription_start (lines 124-137): the state change
on_transcription_start(s, filename, wrote) ==
    _save_state([s EXCEPT !.status = "transcribing",
                          !.current = [filename |-> filename],
                          !.error_message = NoError], wrote)

\* (mutant) a progress update with no job in hand starts one
on_progress_creates(s, wrote) ==
    IF s.current # NoJob
    THEN _save_state(s, wrote)
    ELSE _save_state([s EXCEPT !.current = [filename |-> "unknown"]], wrote)

\* on_progress (lines 148-153): with a job in hand its progress_percent
\* and stage are set and the state is saved (the job record of the model
\* holds the filename only); with none, nothing
on_progress(s, wrote) ==
    IF s.current # NoJob
    THEN _save_state(s, wrote)
    ELSE [s |-> s, raised |-> FALSE]

Range(seq) == {seq[k] : k \in 1..Len(seq)}

\* list.remove(x) of an x that is in the list
Remove(seq, x) ==
    LET k == CHOOSE j \in 1..Len(seq) : seq[j] = x
    IN  SubSeq(seq, 1, k - 1) \o SubSeq(seq, k + 1, Len(seq))

ValueErrorText == "list.remove(x): x not in list"

\* lines 112-113: remove the disconnected clients; list.remove raises
\* ValueError for a client that is no longer in the list
RECURSIVE RemoveDisconnected(_, _)
RemoveDisconnected(cl, disconnected) ==
    IF disconnected = <<>> THEN [clients |-> cl, exc |-> NoRaise]
    ELSE IF Head(disconnected) \notin Range(cl)
    THEN [clients |-> cl, exc |-> Raise(ValueErrorText)]
    ELSE RemoveDisconnected(Remove(cl, Head(disconnected)),
                            Tail(disconnected))

\* client.write(msg_bytes): buffered on an open connection, dropped by a
\* transport that has lost its connection
Write(cn, c, msg) ==
    IF cn[c].link = "open"
    THEN [cn EXCEPT ![c].wire = Append(@, msg)]
    ELSE cn

\* The for loop of lines 105-110 from its i-th iteration on, up to the
\* first drain() that suspends (open connection, paused transport) or to
\* the end of broadcast.  The loop indexes the live list self._clients.
\* susp: the coroutine as it is suspended, if it is.
RECURSIVE FanOut(_, _, _, _, _)
FanOut(cl, cn, ev, i, disconnected) ==
    IF i > Len(cl)
    THEN LET r == RemoveDisconnected(cl, disconnected)
         IN  [clients |-> r.clients, conns |-> cn, susp |-> <<>>,
              exc |-> r.exc]
    ELSE LET c == cl[i]
             cn1 == Write(cn, c, ev)
         IN  IF cn[c].link = "open"
             THEN IF cn[c].paused
                  THEN [clients |-> cl, conns |-> cn1,
                        susp |-> <<[ev |-> ev, i |-> i, client |-> c,
                                    disconnected |-> disconnected]>>,
                        exc |-> NoRaise]
                  ELSE FanOut(cl, cn1, ev, i + 1, disconnected)
             ELSE FanOut(cl, cn1, ev, i + 1, Append(disconnected, c))

\* broadcast(event), lines 96-113, up to its first suspension
broadcast(cl, cn, ev) ==
    IF cl = <<>>
    THEN [clients |-> cl, conns |-> cn, susp |-> <<>>, exc |-> NoRaise]
    ELSE FanOut(cl, cn, ev, 1, <<>>)

(***************************************************************************)
(* The lines a client sends and what _handle_client does with one          *)
(* (daemon_state.py:340-367)                                               *)
(***************************************************************************)
\* A line by what data.decode() and json.loads make of it: whether the
\* bytes are UTF-8, what the JSON text is ("invalid": not JSON), and for an
\* object the value of its "command" key.
Line(utf8, json, command) ==
    [utf8 |-> utf8, json |-> json, command |-> command]

StatusLine    == Line(TRUE, "object", "status")
HistoryLine   == Line(TRUE, "object", "history")
UnknownLine   == Line(TRUE, "object", "reload")
NoCommandLine == Line(TRUE, "object", "<absent>")
NotJsonLine   == Line(TRUE, "invalid", "<absent>")
ArrayLine     == Line(TRUE, "array", "<absent>")
NumberLine    == Line(TRUE, "number", "<absent>")
NotUtf8Line   == Line(FALSE, "invalid", "<absent>")

Lines ==
    {StatusLine, HistoryLine, UnknownLine, NoCommandLine, NotJsonLine,
     ArrayLine, NumberLine, NotUtf8Line}

UnicodeErrorText == "'utf-8' codec can't decode byte"
NoGetText == "object has no attribute 'get'"

\* the reply of lines 343-355
StatusReply(s) ==
    [event |-> "state", status |-> s.status, current |-> s.current,
     queue |-> s.queue]

\* (mutant) the whole history is sent
HistoryReplyNoCap(s) ==
    [event |-> "history", transcripts |-> s.history]

\* the reply of lines 358-364
HistoryReply(s) ==
    [event |-> "history", transcripts |-> Take(s.history, ReplyCap)]

\* Lines 340-367 for one line: the replies written and the exception that
\* leaves the loop.  Only json.JSONDecodeError is caught at line 366;
\* UnicodeDecodeError of data.decode() and AttributeError of cmd.get are
\* not, and they are not among the exceptions of line 368 either.
HandleLine(s, line) ==
    IF ~line.utf8
    THEN [reply |-> <<>>, exc |-> Raise(UnicodeErrorText)]
    ELSE IF line.json = "invalid"
    THEN [reply |-> <<>>, exc |-> NoRaise]
    ELSE IF line.json # "object"
    THEN [reply |-> <<>>, exc |-> Raise(NoGetText)]
    ELSE IF line.command = "status"
    THEN [reply |-> <<StatusReply(s)>>, exc |-> NoRaise]
    ELSE IF line.command = "history"
    THEN [reply |-> <<HistoryReply(s)>>, exc |-> NoRaise]
    ELSE [reply |-> <<>>, exc |-> NoRaise]

(***************************************************************************)
(* The socket server before any client has connected                       *)
(***************************************************************************)
\* the clients that may connect
Clients == {1, 2}

\* link: the connection ("none", "open", "lost": the peer is gone, "closed":
\*       writer.close() was called)
\* pc:   where the client's _handle_client task is
\* paused: the transport's write buffer is over its high-water mark, so
\*       that drain() suspends
\* wire: the messages written to the connection, in order
\* since: the number of events emitted before the client connected (not
\*       read by the code)
\* reqs: the number of lines the handler has read; line: the latest one
\* exc:  the exception that ended the handler, if one did
NoLine == [utf8 |-> TRUE, json |-> "none", command |-> "<absent>"]

NoConn ==
    [link |-> "none", pc |-> "none", paused |-> FALSE, wire |-> <<>>,
     since |-> 0, reqs |-> 0, line |-> NoLine, exc |-> NoRaise]

\* the callback thread is inside no mutator; job is the file whose
\* transcription subprocess is running
NoMut == [op |-> "none", pc |-> 0, filename |-> "", job |-> ""]

\* run_daemon at "await stop_event.wait()" (watcher.py:544): the PID file
\* is written, the server listens on its socket, the observer runs.
\* pc: the position of run_daemon; i: the index of stop_server's for loop
\* in _clients; open: the connections open when stop_server was called;
\* closed: the clients stop_server has called close() on; scan: the files
\* process_existing_files has still to take; once: args.once; exit: the
\* exit status of the process, -1 while it runs
Serving ==
    [pc |-> "serving", i |-> 0, listener |-> TRUE, socket_file |-> TRUE,
     pid_file |-> TRUE, open |-> {}, closed |-> {}, scan |-> <<>>,
     once |-> FALSE, exit |-> -1]

\* The thread of the event loop is free to run callbacks and coroutines:
\* run_daemon is not inside one of its synchronous stretches, the startup
\* up to the end of process_existing_files() (watcher.py:453-506, with the
\* one await of line 474) and observer.join() (line 547).
LoopFree ==
    down.pc \notin {"start", "init", "binding", "scanning", "joining"}

\* no subprocess has ended yet
NoRun ==
    [doc |-> [file |-> "none", top |-> "none", language |-> "<absent>",
              given |-> "<absent>", segments |-> <<>>],
     pc |-> "none",
     ret |-> [success |-> FALSE, language |-> "", speaker_count |-> 0,
              error |-> NoError],
     recorded |-> [language |-> "", speaker_count |-> -1]]

\* the handler as run_daemon creates it (watcher.py:496-503): with the
\* state manager and the loop; the constructor's defaults are None.
\* calls: the number of _emit_event calls that have returned
Attached(state_manager, event_loop) ==
    [state_manager |-> state_manager, event_loop |-> event_loop,
     pending |-> <<>>, calls |-> 0]

ServerIdle ==
    /\ clients = <<>>
    /\ conns = [c \in Clients |-> NoConn]
    /\ tasks = <<>>
    /\ mut = NoMut
    /\ down = Serving
    /\ bridge = Attached(TRUE, TRUE)
    /\ run = NoRun

(***************************************************************************)
(* Initial state: after StateManager() and TranscriptionHandler()          *)
(***************************************************************************)
\* files already in the archive directory when the daemon starts
OldArchives ==
    { {}, {[name |-> "a.wav", content |-> "old"]},
      {[name |-> "a.wav", content |-> "old"],
       [name |-> "a_1.wav", content |-> "old"]} }

InitStats ==
    [total_processed |-> 0, successful |-> 0, failed |-> 0,
     current_file |-> "", last_processed |-> ""]

Init ==
    /\ files = [p \in AudioPaths |-> NoFile]
    /\ archive \in OldArchives
    /\ events = <<>>
    /\ delivered = [p \in Paths |-> 0]
    /\ spaced = {}
    /\ cb = [t \in Threads |-> IdleCb]
    /\ processing = {}
    /\ processed = {}
    /\ stats = InitStats
    /\ store = NewStore(LoadedHistory(MaxLoaded), TRUE)
    /\ ids = 0
    /\ dispatches = [p \in AudioPaths |-> 0]
    /\ emitted = <<>>
    /\ disk0 = DiskOf(LoadedHistory(MaxLoaded))
    /\ call = NoCall
    /\ ServerIdle

\* the engine's steps leave the server loop and the store's caller alone
ServerFrame ==
    UNCHANGED <<disk0, call, clients, conns, tasks, mut, down, bridge, run>>

(***************************************************************************)
(* Environment: files written into the watched directory, events           *)
(***************************************************************************)
Blocked == {"waiting", "probing", "running"}

InQueue(p) == \E k \in 1..Len(events) : events[k] = p

\* some callback is blocked on p and will look at the file again
Watched(p) == \E t \in Threads : cb[t].pc \in Blocked /\ cb[t].path = p

\* an event naming p is queued or its callback is still running
Pending(p) ==
    \/ InQueue(p)
    \/ \E t \in Threads : cb[t].pc \in Blocked /\ cb[t].path = p

RECURSIVE Sum(_, _)
Sum(f, S) ==
    IF S = {} THEN 0
    ELSE LET x == CHOOSE y \in S : TRUE IN f[x] + Sum(f, S \ {x})

\* the observer queues an event naming p
Deliver(p) ==
    /\ Sum(delivered, Paths) < MaxEvents
    /\ events' = Append(events, p)
    /\ delivered' = [delivered EXCEPT ![p] = @ + 1]
    /\ spaced' = IF delivered[p] > 0 /\ ~Pending(p)
                 THEN spaced \cup {p} ELSE spaced

\* a file (with or without its .noarchive marker) is created or moved into
\* the directory and the observer queues the event
FileDropped(p, size, marker) ==
    /\ UNCHANGED emitted /\ ServerFrame
    /\ files' = [files EXCEPT ![p] = [exists |-> TRUE, size |-> size,
                                      marker |-> marker]]
    /\ Deliver(p)
    /\ UNCHANGED <<archive, cb, processing, processed, stats, store, ids,
                   dispatches>>

\* a further event naming the path (duplicate notification), or an event
\* for a file that is not audio
EventOnly(p) ==
    /\ UNCHANGED emitted /\ ServerFrame
    /\ Deliver(p)
    /\ UNCHANGED <<files, archive, cb, processing, processed, stats, store,
                   ids, dispatches>>

\* the writer of the file goes on writing
EnvWrite(p, size) ==
    /\ UNCHANGED emitted /\ ServerFrame
    /\ files[p].exists /\ Watched(p)
    /\ size # files[p].size
    /\ files' = [files EXCEPT ![p].size = size]
    /\ UNCHANGED <<archive, events, delivered, spaced, cb, processing, processed,
                   stats, store, ids, dispatches>>

\* the file is removed or moved away
EnvRemove(p) ==
    /\ UNCHANGED emitted /\ ServerFrame
    /\ files[p].exists /\ Watched(p)
    /\ files' = [files EXCEPT ![p].exists = FALSE, ![p].size = 0]
    /\ UNCHANGED <<archive, events, delivered, spaced, cb, processing, processed,
                   stats, store, ids, dispatches>>

(***************************************************************************)
(* Callback steps                                                          *)
(***************************************************************************)
\* (mutant) a wait that ran out without break gives the file up
AfterWaitOnlyStable(t, c) ==
    IF ~files[c.path].exists \/ ~c.broke
    THEN /\ cb' = [cb EXCEPT ![t] = IdleCb]
         /\ UNCHANGED <<processing, stats>>
    ELSE /\ processing' = processing \cup {c.path}
         /\ stats' = [stats EXCEPT !.current_file = Name(c.path)]
         /\ cb' = [cb EXCEPT ![t] = [c EXCEPT !.pc = "probing"]]

\* (mutant) no file_path.exists() test after the wait
AfterWaitNoCheck(t, c) ==
    /\ processing' = processing \cup {c.path}
    /\ stats' = [stats EXCEPT !.current_file = Name(c.path)]
    /\ cb' = [cb EXCEPT ![t] = [c EXCEPT !.pc = "probing"]]

\* lines 174-183, reached from the loop's break or from its end
AfterWait(t, c) ==
    IF ~files[c.path].exists
    THEN /\ cb' = [cb EXCEPT ![t] = IdleCb]
         /\ UNCHANGED <<processing, stats>>
    ELSE /\ processing' = processing \cup {c.path}
         /\ stats' = [stats EXCEPT !.current_file = Name(c.path)]
         /\ cb' = [cb EXCEPT ![t] = [c EXCEPT !.pc = "probing"]]

\* on_created / on_moved -> _process_file, lines 157-172, and the first
\* iteration of the wait loop (up to its sleep)
\* (mutant) the check of line 166 without processed_files
OnEventForgetful(t) ==
    /\ UNCHANGED emitted /\ ServerFrame
    /\ cb[t].pc = "idle"
    /\ events # <<>>
    /\ events' = Tail(events)
    /\ LET p == Head(events)
       IN  IF ~IsSupported(p) \/ p \in processing
           THEN cb' = cb
           ELSE cb' = [cb EXCEPT ![t] =
                          WaitIteration([IdleCb EXCEPT !.pc = "waiting",
                                                       !.path = p],
                                        Stat(files[p]))]
    /\ UNCHANGED <<files, archive, delivered, spaced, processing, processed, stats,
                   store, ids, dispatches>>

OnEvent(t) ==
    /\ UNCHANGED emitted /\ ServerFrame
    /\ cb[t].pc = "idle"
    /\ events # <<>>
    /\ events' = Tail(events)
    /\ LET p == Head(events)
       IN  IF ~IsSupported(p) \/ p \in processing \/ p \in processed
           THEN cb' = cb
           ELSE cb' = [cb EXCEPT ![t] =
                          WaitIteration([IdleCb EXCEPT !.pc = "waiting",
                                                       !.path = p],
                                        Stat(files[p]))]
    /\ UNCHANGED <<files, archive, delivered, spaced, processing, processed, stats,
                   store, ids, dispatches>>

\* a later iteration of the wait loop; on break, on to line 174
Poll(t) ==
    /\ UNCHANGED emitted /\ ServerFrame
    /\ cb[t].pc = "waiting"
    /\ cb[t].i < MaxWait
    /\ LET c == WaitIteration(cb[t], Stat(files[cb[t].path]))
       IN  IF c.broke
           THEN AfterWait(t, c)
           ELSE cb' = [cb EXCEPT ![t] = c] /\ UNCHANGED <<processing, stats>>
    /\ UNCHANGED <<files, archive, events, delivered, spaced, processed, store, ids,
                   dispatches>>

\* the loop ran max_wait times without break; on to line 174
WaitExpired(t) ==
    /\ UNCHANGED emitted /\ ServerFrame
    /\ cb[t].pc = "waiting"
    /\ cb[t].i = MaxWait
    /\ AfterWait(t, cb[t])
    /\ UNCHANGED <<files, archive, events, delivered, spaced, processed, store, ids,
                   dispatches>>

\* lines 185-207: after ffprobe and the notification, set_transcribing_sync
\* and the start of the transcription subprocess
StartDispatch(t, wr) ==
    /\ UNCHANGED emitted   \* lines 185-207 hold no call of _emit_event
    /\ ServerFrame
    /\ cb[t].pc = "probing"
    /\ LET p == cb[t].path
           r == set_transcribing_sync(store, Name(p), wr[1])
           w == IF r.raised
                THEN HandlerExcept([World EXCEPT !.store = r.s], p,
                                   DiskErrorText, wr[3], wr[4])
                ELSE [World EXCEPT !.store = r.s]
       IN  /\ Commit(w)
           /\ cb' = [cb EXCEPT ![t] =
                        IF r.raised THEN [IdleCb EXCEPT !.pc = EndPc(w)]
                        ELSE [cb[t] EXCEPT !.pc = "running"]]
           /\ dispatches' = IF r.raised THEN dispatches
                            ELSE [dispatches EXCEPT ![p] = @ + 1]
    /\ UNCHANGED <<events, delivered, spaced>>

\* lines 207-290: the subprocess ended with outcome
Finish(t, outcome, wr) ==
    /\ UNCHANGED emitted   \* lines 207-290 hold no call of _emit_event
    /\ ServerFrame
    /\ cb[t].pc = "running"
    /\ LET w == AfterRun(World, cb[t].path, outcome, wr)
       IN  /\ Commit(w)
           /\ cb' = [cb EXCEPT ![t] = [IdleCb EXCEPT !.pc = EndPc(w)]]
    /\ UNCHANGED <<events, delivered, spaced, dispatches>>

\* outcomes of the writes of one step: wr[1], wr[2] for the mutator the step
\* calls, wr[3], wr[4] for set_failed_sync in the except block.  A write
\* after a failed one is not attempted, so its outcome is left TRUE.
Writes ==
    {wr \in [1..4 -> BOOLEAN] : (~wr[1] => wr[2]) /\ (~wr[3] => wr[4])}

\* the environment acting on the paths of S
Env(S) ==
    \/ \E p \in S \cap AudioPaths, size \in 0..MaxSize, marker \in BOOLEAN :
          FileDropped(p, size, marker)
    \/ \E p \in S : EventOnly(p)
    \/ \E p \in S \cap AudioPaths, size \in 0..MaxSize : EnvWrite(p, size)
    \/ \E p \in S \cap AudioPaths : EnvRemove(p)

Callback(t) ==
    \/ OnEvent(t)
    \/ Poll(t)
    \/ WaitExpired(t)
    \/ \E wr \in Writes : StartDispatch(t, wr)
    \/ \E outcome \in Outcomes, wr \in Writes : Finish(t, outcome, wr)

\* The daemon: the observer delivers the events one at a time on its
\* dispatcher thread.
Next == Env(Paths) \/ Callback(1)

Spec == Init /\ [][Next]_vars

\* The handler with its callbacks running concurrently, all events naming
\* one path, the archive directory empty at the start.
InitPool == Init /\ archive = {}

NextPool == Env({PathA}) \/ \E t \in Threads : Callback(t)

SpecPool == InitPool /\ [][NextPool]_vars

(***************************************************************************)
(* The StateManager alone, its mutators called in any order                *)
(***************************************************************************)
FileNames == {Name(p) : p \in AudioPaths}

\* the filenames the mutators are called with
StoreNames == {Name(PathA)}

\* the queues update_queue is called with
Queues == {<<>>, <<"a.wav">>}

ErrorTexts == {RunError(o) : o \in Outcomes \ {"exit0"}}

InitStore ==
    /\ files = [p \in AudioPaths |-> NoFile]
    /\ archive = {}
    /\ events = <<>>
    /\ delivered = [p \in Paths |-> 0]
    /\ spaced = {}
    /\ cb = [t \in Threads |-> IdleCb]
    /\ processing = {}
    /\ processed = {}
    /\ stats = InitStats
    /\ \E n \in 0..MaxLoaded :
          /\ store = NewStore(LoadedHistory(n), TRUE)
          /\ disk0 = DiskOf(LoadedHistory(n))
    /\ ids = 0
    /\ dispatches = [p \in AudioPaths |-> 0]
    /\ emitted = <<>>
    /\ call = NoCall
    /\ ServerIdle

StoreFrame ==
    UNCHANGED <<files, archive, events, delivered, spaced, cb, processing,
                processed, stats, dispatches, emitted, disk0, clients, conns,
                tasks, mut, down, bridge, run>>

\* how a mutator call ended
Ended(op, r) ==
    [op |-> op,
     exc |-> IF r.raised THEN Raise(DiskErrorText) ELSE NoRaise]

CallSetIdle(wrote) ==
    /\ store' = set_idle(store, wrote).s
    /\ call' = Ended("set_idle", set_idle(store, wrote))
    /\ UNCHANGED ids
    /\ StoreFrame

CallSetTranscribing(filename, wrote) ==
    /\ store' = set_transcribing_sync(store, filename, wrote).s
    /\ call' = Ended("set_transcribing_sync",
                     set_transcribing_sync(store, filename, wrote))
    /\ UNCHANGED ids
    /\ StoreFrame

CallUpdateQueue(queue, wrote) ==
    /\ store' = update_queue(store, queue, wrote).s
    /\ call' = Ended("update_queue", update_queue(store, queue, wrote))
    /\ UNCHANGED ids
    /\ StoreFrame

CallSetCompleted(filename, wroteH, wroteS) ==
    /\ ids < MaxOps
    /\ store' = set_completed_sync(store, ids + 1, filename, wroteH, wroteS).s
    /\ call' = Ended("set_completed_sync",
                     set_completed_sync(store, ids + 1, filename, wroteH,
                                        wroteS))
    /\ ids' = ids + 1
    /\ StoreFrame

CallSetFailed(filename, error, wroteH, wroteS) ==
    /\ ids < MaxOps
    /\ store' = set_failed_sync(store, ids + 1, filename, error,
                                wroteH, wroteS).s
    /\ call' = Ended("set_failed_sync",
                     set_failed_sync(store, ids + 1, filename, error,
                                     wroteH, wroteS))
    /\ ids' = ids + 1
    /\ StoreFrame

CallOnComplete(filename, wroteH, wroteS) ==
    /\ ids < MaxOps
    /\ store' = on_transcription_complete(store, ids + 1, filename,
                                          wroteH, wroteS).s
    /\ call' = Ended("on_transcription_complete",
                     on_transcription_complete(store, ids + 1, filename,
                                               wroteH, wroteS))
    /\ ids' = ids + 1
    /\ StoreFrame

CallOnFailed(filename, error, wroteH, wroteS) ==
    /\ ids < MaxOps
    /\ store' = on_transcription_failed(store, ids + 1, filename, error,
                                        wroteH, wroteS).s
    /\ call' = Ended("on_transcription_failed",
                     on_transcription_failed(store, ids + 1, filename, error,
                                             wroteH, wroteS))
    /\ ids' = ids + 1
    /\ StoreFrame

CallOnStart(filename, wrote) ==
    /\ store' = on_transcription_start(store, filename, wrote).s
    /\ call' = Ended("on_transcription_start",
                     on_transcription_start(store, filename, wrote))
    /\ UNCHANGED ids
    /\ StoreFrame

CallOnProgress(wrote) ==
    /\ store' = on_progress(store, wrote).s
    /\ call' = Ended("on_progress", on_progress(store, wrote))
    /\ UNCHANGED ids
    /\ StoreFrame

NextStore ==
    \/ \E wrote \in BOOLEAN : CallSetIdle(wrote)
    \/ \E f \in StoreNames, wrote \in BOOLEAN : CallSetTranscribing(f, wrote)
    \/ \E q \in Queues, wrote \in BOOLEAN : CallUpdateQueue(q, wrote)
    \/ \E f \in StoreNames, wroteH, wroteS \in BOOLEAN :
          CallSetCompleted(f, wroteH, wroteS)
    \/ \E f \in StoreNames, e \in ErrorTexts, wroteH, wroteS \in BOOLEAN :
          CallSetFailed(f, e, wroteH, wroteS)
    \/ \E f \in StoreNames, wroteH, wroteS \in BOOLEAN :
          CallOnComplete(f, wroteH, wroteS)
    \/ \E f \in StoreNames, e \in ErrorTexts, wroteH, wroteS \in BOOLEAN :
          CallOnFailed(f, e, wroteH, wroteS)
    \/ \E f \in StoreNames, wrote \in BOOLEAN : CallOnStart(f, wrote)
    \/ \E wrote \in BOOLEAN : CallOnProgress(wrote)

SpecStore == InitStore /\ [][NextStore]_vars

(***************************************************************************)
(* StateManager() on the state directory of an earlier run                 *)
(***************************************************************************)
InitBoot ==
    /\ files = [p \in AudioPaths |-> NoFile]
    /\ archive = {}
    /\ events = <<>>
    /\ delivered = [p \in Paths |-> 0]
    /\ spaced = {}
    /\ cb = [t \in Threads |-> IdleCb]
    /\ processing = {}
    /\ processed = {}
    /\ stats = InitStats
    /\ disk0 \in Disks
    /\ store = NoStore
    /\ ids = 0
    /\ dispatches = [p \in AudioPaths |-> 0]
    /\ emitted = <<>>
    /\ call = NoCall
    /\ ServerIdle

\* state_manager = StateManager(), watcher.py run_daemon
Construct(wrote) ==
    /\ call.op = "none"
    /\ LET r == StateManager_init(disk0, wrote)
       IN  /\ store' = r.s
           /\ call' = [op |-> "__init__", exc |-> r.exc]
    /\ UNCHANGED ids
    /\ StoreFrame

NextBoot == \E wrote \in BOOLEAN : Construct(wrote)

SpecBoot == InitBoot /\ [][NextBoot]_vars

(***************************************************************************)
(* The server loop: clients connect, stall and go away while the async     *)
(* mutators broadcast                                                      *)
(***************************************************************************)
LoopFrame ==
    UNCHANGED <<files, archive, events, delivered, spaced, cb, processing,
                processed, stats, dispatches, disk0, mut, down, bridge,
                run>>

\* (mutant) the writer is appended and no snapshot is written
AcceptNoSnapshot(c) ==
    /\ LoopFree
    /\ conns[c].link = "none"
    /\ down.listener
    /\ clients' = Append(clients, c)
    /\ conns' = [conns EXCEPT ![c] =
                    [link |-> "open", pc |-> "reading", paused |-> FALSE,
                     wire |-> <<>>, since |-> Len(emitted), reqs |-> 0,
                     line |-> NoLine, exc |-> NoRaise]]
    /\ UNCHANGED <<store, ids, emitted, tasks, call>>
    /\ LoopFrame

\* _handle_client up to its first readline (lines 317-336): the writer is
\* appended, the snapshot is written and drained with no suspension
Accept(c) ==
    /\ LoopFree
    /\ conns[c].link = "none"
    /\ down.listener
    /\ clients' = Append(clients, c)
    /\ conns' = [conns EXCEPT ![c] =
                    [link |-> "open", pc |-> "reading", paused |-> FALSE,
                     wire |-> <<Snapshot(store)>>, since |-> Len(emitted),
                     reqs |-> 0, line |-> NoLine, exc |-> NoRaise]]
    /\ UNCHANGED <<store, ids, emitted, tasks, call>>
    /\ LoopFrame

\* the client stops reading and the transport's buffer fills up
Stall(c) ==
    /\ conns[c].link = "open" /\ ~conns[c].paused
    /\ conns' = [conns EXCEPT ![c].paused = TRUE]
    /\ UNCHANGED <<store, ids, emitted, clients, tasks, call>>
    /\ LoopFrame

\* the client reads again
Unstall(c) ==
    /\ conns[c].link = "open" /\ conns[c].paused
    /\ conns' = [conns EXCEPT ![c].paused = FALSE]
    /\ UNCHANGED <<store, ids, emitted, clients, tasks, call>>
    /\ LoopFrame

\* the connection is lost (reset, broken pipe)
Drop(c) ==
    /\ conns[c].link = "open"
    /\ conns' = [conns EXCEPT ![c].link = "lost", ![c].paused = FALSE]
    /\ UNCHANGED <<store, ids, emitted, clients, tasks, call>>
    /\ LoopFrame

\* _handle_client after readline has ended (the peer is gone, or the
\* writer was closed) or drain() has raised (lines 337-377): the finally
\* block removes the writer if it is in the list and closes it
HandlerExit(c) ==
    /\ LoopFree
    /\ conns[c].pc \in {"reading", "draining"}
    /\ conns[c].link \in {"lost", "closed"}
    /\ clients' = IF c \in Range(clients) THEN Remove(clients, c)
                  ELSE clients
    /\ conns' = [conns EXCEPT ![c].link = "closed", ![c].pc = "done"]
    /\ UNCHANGED <<store, ids, emitted, tasks, call>>
    /\ LoopFrame

\* the lines read on all connections
Requests == Sum([c \in Clients |-> conns[c].reqs], Clients)

\* _handle_client reads a line (lines 336-367): the reply is written and
\* drained, which suspends the handler on a paused transport; an exception
\* that line 366 and line 368 do not catch runs the finally block (lines
\* 370-377) and ends the handler
Request(c, line) ==
    /\ LoopFree
    /\ conns[c].pc = "reading" /\ conns[c].link = "open"
    /\ Requests < MaxRequests
    /\ LET r == HandleLine(store, line)
           cn == [conns EXCEPT ![c].reqs = @ + 1, ![c].line = line,
                               ![c].wire = @ \o r.reply]
       IN  IF r.exc.raised
           THEN /\ clients' = IF c \in Range(clients)
                              THEN Remove(clients, c) ELSE clients
                /\ conns' = [cn EXCEPT ![c].link = "closed",
                                       ![c].pc = "done", ![c].exc = r.exc]
           ELSE /\ clients' = clients
                /\ conns' = [cn EXCEPT ![c].pc =
                                IF r.reply # <<>> /\ conns[c].paused
                                THEN "draining" ELSE "reading"]
    /\ UNCHANGED <<store, ids, emitted, tasks, call>>
    /\ LoopFrame

\* the handler suspended in drain() after a reply (lines 356, 365) goes on
\* when the client has read
HandlerResume(c) ==
    /\ LoopFree
    /\ conns[c].pc = "draining" /\ conns[c].link = "open"
    /\ ~conns[c].paused
    /\ conns' = [conns EXCEPT ![c].pc = "reading"]
    /\ UNCHANGED <<store, ids, emitted, clients, tasks, call>>
    /\ LoopFrame

\* await self.broadcast(ev) at the end of an async mutator
Emit(ev) ==
    LET b == broadcast(clients, conns, ev)
    IN  /\ clients' = b.clients
        /\ conns' = b.conns
        /\ tasks' = tasks \o b.susp
        /\ call' = [op |-> "broadcast", exc |-> b.exc]
        /\ emitted' = Append(emitted, ev)

LoopOnStart(filename) ==
    /\ LoopFree
    /\ Len(emitted) < MaxBroadcasts
    /\ store' = on_transcription_start(store, filename, TRUE).s
    /\ Emit(StartedEvent(filename, Len(emitted) + 1))
    /\ UNCHANGED ids
    /\ LoopFrame

LoopOnComplete(filename) ==
    /\ LoopFree
    /\ Len(emitted) < MaxBroadcasts
    /\ store' = on_transcription_complete(store, ids + 1, filename,
                                          TRUE, TRUE).s
    /\ ids' = ids + 1
    /\ Emit(CompletedEventOf(ids + 1, filename, Len(emitted) + 1))
    /\ LoopFrame

LoopOnFailed(filename, error) ==
    /\ LoopFree
    /\ Len(emitted) < MaxBroadcasts
    /\ store' = on_transcription_failed(store, ids + 1, filename, error,
                                        TRUE, TRUE).s
    /\ ids' = ids + 1
    /\ Emit(FailedEventOf(filename, error, Len(emitted) + 1))
    /\ LoopFrame

\* a broadcast suspended in drain() (line 108) goes on: drain returns when
\* the client has read, and raises when the connection is gone.  The
\* coroutines waiting in drain() on one connection are woken in the order
\* in which they began to wait.
BroadcastResume(k) ==
    /\ LoopFree
    /\ k \in 1..Len(tasks)
    /\ \A j \in 1..(k - 1) : tasks[j].client # tasks[k].client
    /\ LET t == tasks[k]
           gone == conns[t.client].link # "open"
           b == FanOut(clients, conns, t.ev, t.i + 1,
                       IF gone THEN Append(t.disconnected, t.client)
                       ELSE t.disconnected)
       IN  /\ gone \/ ~conns[t.client].paused
           /\ clients' = b.clients
           /\ conns' = b.conns
           /\ tasks' = SubSeq(tasks, 1, k - 1)
                          \o SubSeq(tasks, k + 1, Len(tasks)) \o b.susp
           /\ call' = [op |-> "broadcast", exc |-> b.exc]
    /\ UNCHANGED <<store, ids, emitted>>
    /\ LoopFrame

NextServer ==
    \/ \E c \in Clients : Accept(c)
    \/ \E c \in Clients : Stall(c)
    \/ \E c \in Clients : Unstall(c)
    \/ \E c \in Clients : Drop(c)
    \/ \E c \in Clients : HandlerExit(c)
    \/ \E f \in StoreNames : LoopOnStart(f)
    \/ \E f \in StoreNames : LoopOnComplete(f)
    \/ \E f \in StoreNames : LoopOnFailed(f, "Exit code 1")
    \/ \E k \in 1..MaxBroadcasts : BroadcastResume(k)

SpecServer == InitPool /\ [][NextServer]_vars

\* clients send lines while a mutator changes the state and broadcasts
NextRequests ==
    \/ \E c \in Clients : Accept(c)
    \/ \E c \in Clients : Stall(c)
    \/ \E c \in Clients : Unstall(c)
    \/ \E c \in Clients : Drop(c)
    \/ \E c \in Clients : HandlerExit(c)
    \/ \E c \in Clients : \E line \in Lines : Request(c, line)
    \/ \E c \in Clients : HandlerResume(c)
    \/ \E f \in StoreNames : LoopOnComplete(f)
    \/ \E k \in 1..MaxBroadcasts : BroadcastResume(k)

SpecRequests == InitPool /\ [][NextRequests]_vars

(***************************************************************************)
(* The callback thread inside the sync mutators, statement by statement,   *)
(* while the server loop accepts clients.  The two threads share _state    *)
(* and _history; no lock is taken (daemon_state.py:245-332).               *)
(***************************************************************************)
RaceFrame ==
    UNCHANGED <<files, archive, events, delivered, spaced, cb, processing,
                processed, stats, dispatches, emitted, disk0, call, clients,
                conns, tasks, down, bridge, run>>

\* watcher.py:203: the callback calls set_transcribing_sync(filename)
RaceDispatch(filename) ==
    /\ mut.op = "none"
    /\ ids < MaxOps
    /\ mut' = [op |-> "set_transcribing_sync", pc |-> 1,
               filename |-> filename, job |-> ""]
    /\ UNCHANGED <<store, ids>>
    /\ RaceFrame

\* set_transcribing_sync, lines 254, 255-261, 262-263
RaceSetTranscribing ==
    /\ mut.op = "set_transcribing_sync"
    /\ \/ /\ mut.pc = 1
          /\ store' = [store EXCEPT !.status = "transcribing"]
          /\ mut' = [mut EXCEPT !.pc = 2]
       \/ /\ mut.pc = 2
          /\ store' = [store EXCEPT !.current = [filename |-> mut.filename]]
          /\ mut' = [mut EXCEPT !.pc = 3]
       \/ /\ mut.pc = 3
          /\ store' = _save_state([store EXCEPT !.error_message = NoError],
                                  TRUE).s
          /\ mut' = [mut EXCEPT !.op = "job", !.pc = 0,
                                !.job = mut.filename]
    /\ UNCHANGED ids
    /\ RaceFrame

\* watcher.py:207-272: the subprocess ends and the callback calls
\* set_completed_sync or set_failed_sync
RaceJobEnds(outcome) ==
    /\ mut.op = "job"
    /\ mut' = [mut EXCEPT !.op = IF RunSuccess(outcome)
                                 THEN "set_completed_sync"
                                 ELSE "set_failed_sync",
                          !.pc = 1, !.job = ""]
    /\ UNCHANGED <<store, ids>>
    /\ RaceFrame

\* set_completed_sync, lines 287-289, then set_idle, lines 247, 248, 249-250
RaceSetCompleted ==
    /\ mut.op = "set_completed_sync"
    /\ \/ /\ mut.pc = 1
          /\ store' = _save_history(
                          [store EXCEPT !.history =
                              Prepend(store.history,
                                      CompletedEntry(ids + 1, mut.filename))],
                          TRUE).s
          /\ ids' = ids + 1
          /\ mut' = [mut EXCEPT !.pc = 2]
       \/ /\ mut.pc = 2
          /\ store' = [store EXCEPT !.status = "idle"]
          /\ mut' = [mut EXCEPT !.pc = 3]
          /\ UNCHANGED ids
       \/ /\ mut.pc = 3
          /\ store' = [store EXCEPT !.current = NoJob]
          /\ mut' = [mut EXCEPT !.pc = 4]
          /\ UNCHANGED ids
       \/ /\ mut.pc = 4
          /\ store' = _save_state([store EXCEPT !.error_message = NoError],
                                  TRUE).s
          /\ mut' = NoMut
          /\ UNCHANGED ids
    /\ RaceFrame

\* set_failed_sync, lines 308-310, 312, 313, 314-315
RaceSetFailed(error) ==
    /\ mut.op = "set_failed_sync"
    /\ \/ /\ mut.pc = 1
          /\ store' = _save_history(
                          [store EXCEPT !.history =
                              Prepend(store.history,
                                      FailedEntry(ids + 1, mut.filename,
                                                  error))],
                          TRUE).s
          /\ ids' = ids + 1
          /\ mut' = [mut EXCEPT !.pc = 2]
       \/ /\ mut.pc = 2
          /\ store' = [store EXCEPT !.status = "error"]
          /\ mut' = [mut EXCEPT !.pc = 3]
          /\ UNCHANGED ids
       \/ /\ mut.pc = 3
          /\ store' = [store EXCEPT !.current = NoJob]
          /\ mut' = [mut EXCEPT !.pc = 4]
          /\ UNCHANGED ids
       \/ /\ mut.pc = 4
          /\ store' = _save_state([store EXCEPT !.error_message = error],
                                  TRUE).s
          /\ mut' = NoMut
          /\ UNCHANGED ids
    /\ RaceFrame

NextRace ==
    \/ \E c \in Clients : Accept(c)
    \/ \E f \in FileNames : RaceDispatch(f)
    \/ RaceSetTranscribing
    \/ \E outcome \in Outcomes : RaceJobEnds(outcome)
    \/ RaceSetCompleted
    \/ RaceSetFailed("Exit code 1")
    \/ Request(1, StatusLine)

SpecRace == InitPool /\ [][NextRace]_vars

(***************************************************************************)
(* The result document of a run that exited with 0, and what               *)
(* _run_transcription makes of it (watcher.py:346-363, 386-389)            *)
(***************************************************************************)
\* segments of a result document
MaxSegments == 2

\* A segment by what seg.get("speaker") makes of it: an object with a
\* speaker tag, with an empty tag, without the key, and a segment that is
\* not an object.
SegmentKinds == {"SPEAKER_00", "SPEAKER_01", "", "<absent>", "<not object>"}

SegmentLists ==
    UNION {[1..n -> SegmentKinds] : n \in 0..MaxSegments}

\* file: "missing", "unreadable" (open raises OSError), "not_utf8",
\* "not_json", or "json"; top: the JSON text's top level; language: the
\* value of the key or "<absent>"; given: whether the segments key is a
\* "list", "null" or "<absent>"; segments: the list
ResultDoc(file, top, language, given, segments) ==
    [file |-> file, top |-> top, language |-> language, given |-> given,
     segments |-> segments]

ResultDocs ==
    {ResultDoc(f, "none", "<absent>", "<absent>", <<>>) :
        f \in {"missing", "unreadable", "not_utf8", "not_json"}}
    \cup {ResultDoc("json", "array", "<absent>", "<absent>", <<>>)}
    \cup {ResultDoc("json", "object", l, g, <<>>) :
             l \in {"en", "<absent>"}, g \in {"<absent>", "null"}}
    \cup {ResultDoc("json", "object", l, "list", sg) :
             l \in {"en", "<absent>"}, sg \in SegmentLists}

\* lines 356-359: the loop over the segments from the k-th on
RECURSIVE CountSpeakers(_, _, _)
CountSpeakers(segs, k, speakers) ==
    IF k > Len(segs) THEN [speakers |-> speakers, exc |-> NoRaise]
    ELSE IF segs[k] = "<not object>"
    THEN [speakers |-> speakers, exc |-> Raise(NoGetText)]
    ELSE CountSpeakers(segs, k + 1,
                       IF segs[k] \in {"", "<absent>"} THEN speakers
                       ELSE speakers \cup {segs[k]})

NotIterableText == "'NoneType' object is not iterable"

Returned(success, language, speaker_count, error) ==
    [success |-> success, language |-> language,
     speaker_count |-> speaker_count, error |-> error]

\* Lines 346-363 after returncode == 0, with the handlers of lines 361 and
\* 386: JSONDecodeError and OSError keep the defaults and the success; any
\* other exception of the parsing (UnicodeDecodeError of json.load,
\* AttributeError of data.get / seg.get, TypeError of the loop over null)
\* reaches line 386 and the run is returned as failed.
ParseResult(doc) ==
    IF doc.file \in {"missing", "unreadable", "not_json"}
    THEN Returned(TRUE, "unknown", 0, NoError)
    ELSE IF doc.file = "not_utf8"
    THEN Returned(FALSE, "unknown", 0, UnicodeErrorText)
    ELSE IF doc.top # "object"
    THEN Returned(FALSE, "unknown", 0, NoGetText)
    ELSE LET language == IF doc.language = "<absent>" THEN "unknown"
                         ELSE doc.language
         IN  IF doc.given = "null"
             THEN Returned(FALSE, language, 0, NotIterableText)
             ELSE LET c == CountSpeakers(doc.segments, 1, {})
                  IN  IF c.exc.raised
                      THEN Returned(FALSE, language, 0, c.exc.error)
                      ELSE Returned(TRUE, language,
                                    Cardinality(c.speakers), NoError)

\* a subprocess has exited with 0 and left some result document
InitResult ==
    /\ files = [p \in AudioPaths |-> NoFile]
    /\ archive = {}
    /\ events = <<>>
    /\ delivered = [p \in Paths |-> 0]
    /\ spaced = {}
    /\ cb = [t \in Threads |-> IdleCb]
    /\ processing = {}
    /\ processed = {}
    /\ stats = InitStats
    /\ store = set_transcribing_sync(NewStore(LoadedHistory(MaxLoaded), TRUE),
                                     Name(PathA), TRUE).s
    /\ ids = 0
    /\ dispatches = [p \in AudioPaths |-> 0]
    /\ emitted = <<>>
    /\ disk0 = DiskOf(LoadedHistory(MaxLoaded))
    /\ call = NoCall
    /\ clients = <<>>
    /\ conns = [c \in Clients |-> NoConn]
    /\ tasks = <<>>
    /\ mut = NoMut
    /\ down = Serving
    /\ bridge = Attached(TRUE, TRUE)
    /\ \E doc \in ResultDocs : run = [NoRun EXCEPT !.doc = doc, !.pc = "exit0"]

ResultFrame ==
    UNCHANGED <<files, archive, events, delivered, spaced, cb, processing,
                processed, dispatches, emitted, disk0, clients, conns, tasks,
                mut, down, bridge>>

\* _run_transcription returns (line 363 or 389)
RunReturns ==
    /\ run.pc = "exit0"
    /\ run' = [run EXCEPT !.pc = "returned", !.ret = ParseResult(run.doc)]
    /\ UNCHANGED <<store, ids, call, stats>>
    /\ ResultFrame

\* _process_file, lines 211-218 and 249-256 or 269-272: the stats, and
\* set_completed_sync with the language and the speaker count of
\* result_info, or set_failed_sync with its error
RecordResult ==
    /\ run.pc = "returned"
    /\ stats' = UpdateStats(stats, PathA, run.ret.success)
    /\ ids' = ids + 1
    /\ IF run.ret.success
       THEN /\ store' = set_completed_sync(store, ids + 1, Name(PathA),
                                           TRUE, TRUE).s
            /\ call' = [op |-> "set_completed_sync", exc |-> NoRaise]
            /\ run' = [run EXCEPT !.pc = "recorded",
                          !.recorded = [language |-> run.ret.language,
                                        speaker_count |->
                                            run.ret.speaker_count]]
       ELSE /\ store' = set_failed_sync(store, ids + 1, Name(PathA),
                                        run.ret.error, TRUE, TRUE).s
            /\ call' = [op |-> "set_failed_sync", exc |-> NoRaise]
            /\ run' = [run EXCEPT !.pc = "recorded"]
    /\ ResultFrame

NextResult == RunReturns \/ RecordResult

SpecResult == InitResult /\ [][NextResult]_vars

(***************************************************************************)
(* _emit_event (watcher.py:117-120): the callback thread hands a coroutine *)
(* of the StateManager to the server loop                                  *)
(***************************************************************************)
\* calls of _emit_event in a run
MaxSubmits == 2

\* (mutant) the coroutine is scheduled whatever is attached
_emit_event_unguarded(b, coro) ==
    [b EXCEPT !.pending = Append(@, coro), !.calls = @ + 1]

\* lines 119-120: run_coroutine_threadsafe queues the coroutine on the loop
\* and returns a future, which is not waited for
_emit_event(b, coro) ==
    IF b.state_manager /\ b.event_loop
    THEN [b EXCEPT !.pending = Append(@, coro), !.calls = @ + 1]
    ELSE [b EXCEPT !.calls = @ + 1]

\* the handler with and without a state manager and a loop
InitBridge ==
    /\ files = [p \in AudioPaths |-> NoFile]
    /\ archive = {}
    /\ events = <<>>
    /\ delivered = [p \in Paths |-> 0]
    /\ spaced = {}
    /\ cb = [t \in Threads |-> IdleCb]
    /\ processing = {}
    /\ processed = {}
    /\ stats = InitStats
    /\ store = NewStore(LoadedHistory(MaxLoaded), TRUE)
    /\ ids = 0
    /\ dispatches = [p \in AudioPaths |-> 0]
    /\ emitted = <<>>
    /\ disk0 = DiskOf(LoadedHistory(MaxLoaded))
    /\ call = NoCall
    /\ clients = <<>>
    /\ conns = [c \in Clients |-> NoConn]
    /\ tasks = <<>>
    /\ mut = NoMut
    /\ down = Serving
    /\ \E sm, loop \in BOOLEAN : bridge = Attached(sm, loop)
    /\ run = NoRun

BridgeFrame ==
    UNCHANGED <<files, archive, events, delivered, spaced, cb, processing,
                processed, stats, dispatches, disk0, mut, down, run>>

\* the callback thread calls _emit_event(on_transcription_start(filename))
Submit(filename) ==
    /\ bridge.calls < MaxSubmits
    /\ bridge' = _emit_event(bridge, [op |-> "on_transcription_start",
                                      filename |-> filename])
    /\ call' = [op |-> "_emit_event", exc |-> NoRaise]
    /\ UNCHANGED <<store, ids, emitted, clients, conns, tasks>>
    /\ BridgeFrame

\* the loop runs the coroutine that was queued first, up to its first
\* suspension
RunPending ==
    /\ LoopFree
    /\ bridge.pending # <<>>
    /\ bridge' = [bridge EXCEPT !.pending = Tail(@)]
    /\ store' = on_transcription_start(store, Head(bridge.pending).filename,
                                       TRUE).s
    /\ Emit(StartedEvent(Head(bridge.pending).filename, Len(emitted) + 1))
    /\ UNCHANGED ids
    /\ BridgeFrame

NextBridge ==
    \/ \E f \in StoreNames : Submit(f)
    \/ RunPending
    \/ \E c \in Clients : Accept(c)
    \/ \E c \in Clients : Stall(c)
    \/ \E c \in Clients : Unstall(c)
    \/ \E k \in 1..MaxBroadcasts : BroadcastResume(k)

SpecBridge == InitBridge /\ [][NextBridge]_vars

(***************************************************************************)
(* Shutdown: the finally block of run_daemon (watcher.py:545-549) and      *)
(* stop_server (daemon_state.py:390-407), while the observer's thread      *)
(* finishes the file in hand and the client handlers run                   *)
(***************************************************************************)
DownFrame ==
    UNCHANGED <<disk0, call, tasks, mut, emitted, store, ids, bridge, run>>

EngineFrame ==
    UNCHANGED <<files, archive, events, delivered, spaced, cb, processing,
                processed, stats, dispatches>>

\* the signal handler sets stop_event (watcher.py:533-537); run_daemon
\* calls observer.stop() (line 546) and blocks in observer.join()
Signal ==
    /\ down.pc = "serving"
    /\ down' = [down EXCEPT !.pc = "joining"]
    /\ UNCHANGED <<clients, conns>>
    /\ DownFrame /\ EngineFrame

\* observer.join() (line 547) returns when the dispatcher thread has left
\* the handler; stop_server closes the listener and waits (lines 392-394)
StopListener ==
    /\ down.pc = "joining"
    /\ \A t \in Threads : cb[t].pc \notin Blocked
    /\ down' = [down EXCEPT !.pc = "listener", !.listener = FALSE,
                            !.open = {c \in Clients :
                                        conns[c].link \in {"open", "lost"}}]
    /\ UNCHANGED <<clients, conns>>
    /\ DownFrame /\ EngineFrame

\* client.close() of line 398
Close(cn, c) ==
    IF cn[c].link \in {"open", "lost"}
    THEN [cn EXCEPT ![c].link = "closed", ![c].paused = FALSE]
    ELSE cn

\* stop_server goes on after an await (lines 394, 400): the for loop of
\* line 397 takes the next index of the live list _clients, closes that
\* client and waits for it; at the end of the list, lines 404-407.  The
\* handler of a closed client that waits in readline is woken before the
\* waiter of wait_closed.
StopResume ==
    /\ down.pc \in {"listener", "client"}
    /\ \A c \in down.closed : conns[c].pc # "reading"
    /\ LET i == down.i + 1
       IN  IF i <= Len(clients)
           THEN /\ conns' = Close(conns, clients[i])
                /\ clients' = clients
                /\ down' = [down EXCEPT !.pc = "client", !.i = i,
                                        !.closed = @ \cup {clients[i]}]
           ELSE /\ clients' = <<>>
                /\ conns' = conns
                /\ down' = [down EXCEPT !.pc = "stopped",
                                        !.socket_file = FALSE]
    /\ DownFrame /\ EngineFrame

\* state_manager.cleanup_pid() (watcher.py:549, daemon_state.py:119-122)
CleanupPid ==
    /\ down.pc = "stopped"
    /\ down' = [down EXCEPT !.pc = "exited", !.pid_file = FALSE, !.exit = 0]
    /\ UNCHANGED <<clients, conns>>
    /\ DownFrame /\ EngineFrame

\* The daemon with one path: files arrive and are handled on the
\* observer's thread until observer.stop(); the file in hand is finished;
\* clients connect and go away.
NextShutdown ==
    \/ down.pc = "serving" /\ \E size \in 1..MaxSize :
                                  FileDropped(PathA, size, FALSE)
    \/ down.pc = "serving" /\ OnEvent(1)
    \/ Poll(1)
    \/ \E wr \in Writes : StartDispatch(1, wr)
    \/ \E outcome \in Outcomes, wr \in Writes : Finish(1, outcome, wr)
    \/ \E c \in Clients : Accept(c)
    \/ \E c \in Clients : Drop(c)
    \/ \E c \in Clients : HandlerExit(c)
    \/ Signal
    \/ StopListener
    \/ StopResume
    \/ CleanupPid

SpecShutdown == InitPool /\ [][NextShutdown]_vars

(***************************************************************************)
(* The whole of run_daemon (watcher.py:451-555): the startup, the scan of  *)
(* the files already in the incoming directory on the main thread, then    *)
(* the observer's thread, then the shutdown                                *)
(***************************************************************************)
\* the thread of process_existing_files and the observer's thread
MainThread == 2

ObserverThread == 1

\* the orders in which iterdir() can list the files of S
RECURSIVE Listings(_)
Listings(S) ==
    IF S = {} THEN {<<>>}
    ELSE UNION {{<<p>> \o l : l \in Listings(S \ {p})} : p \in S}

\* the process has been started: no PID file, no socket, nothing listed
InitStartup ==
    /\ \E S \in SUBSET AudioPaths :
          files = [p \in AudioPaths |->
                     IF p \in S THEN [exists |-> TRUE, size |-> 1,
                                      marker |-> FALSE]
                     ELSE NoFile]
    /\ archive = {}
    /\ events = <<>>
    /\ delivered = [p \in Paths |-> 0]
    /\ spaced = {}
    /\ cb = [t \in Threads |-> IdleCb]
    /\ processing = {}
    /\ processed = {}
    /\ stats = InitStats
    /\ store = NewStore(LoadedHistory(0), TRUE)
    /\ ids = 0
    /\ dispatches = [p \in AudioPaths |-> 0]
    /\ emitted = <<>>
    /\ disk0 = DiskOf(LoadedHistory(0))
    /\ call = NoCall
    /\ clients = <<>>
    /\ conns = [c \in Clients |-> NoConn]
    /\ tasks = <<>>
    /\ mut = NoMut
    /\ \E once \in BOOLEAN :
          down = [Serving EXCEPT !.pc = "start", !.listener = FALSE,
                                 !.socket_file = FALSE, !.pid_file = FALSE,
                                 !.once = once]
    /\ bridge = Attached(TRUE, TRUE)
    /\ run = NoRun

StartupFrame ==
    /\ UNCHANGED <<clients, conns>>
    /\ DownFrame /\ EngineFrame

\* lines 459-462: sys.exit(1) when the script is not there
CheckScript(exists) ==
    /\ down.pc = "start"
    /\ down' = IF exists THEN [down EXCEPT !.pc = "init"]
               ELSE [down EXCEPT !.pc = "exited", !.exit = 1]
    /\ StartupFrame

\* lines 468-469: get_state_manager() and write_pid()
WritePid ==
    /\ down.pc = "init"
    /\ down' = [down EXCEPT !.pc = "binding", !.pid_file = TRUE]
    /\ StartupFrame

\* line 474, start_server (daemon_state.py:379-388): a socket file that is
\* there is unlinked, then the socket is bound, or the bind raises and
\* the exception leaves run_daemon and asyncio.run.  After the await no
\* other await comes before process_existing_files() (line 506), which
\* lists the directory (lines 438-439).
StartServer(bound) ==
    /\ down.pc = "binding"
    /\ IF bound
       THEN \E l \in Listings({p \in AudioPaths : files[p].exists}) :
               down' = [down EXCEPT !.pc = "scanning", !.listener = TRUE,
                                    !.socket_file = TRUE, !.scan = l]
       ELSE down' = [down EXCEPT !.pc = "exited", !.socket_file = FALSE,
                                 !.exit = 1]
    /\ StartupFrame

\* lines 442-445: the loop of process_existing_files calls _process_file
\* for the next listed file, on the main thread
ScanNext ==
    /\ down.pc = "scanning"
    /\ cb[MainThread].pc = "idle"
    /\ down.scan # <<>>
    /\ down' = [down EXCEPT !.scan = Tail(@)]
    /\ LET p == Head(down.scan)
       IN  IF ~IsSupported(p) \/ p \in processing \/ p \in processed
           THEN cb' = cb
           ELSE cb' = [cb EXCEPT ![MainThread] =
                          WaitIteration([IdleCb EXCEPT !.pc = "waiting",
                                                       !.path = p],
                                        Stat(files[p]))]
    /\ UNCHANGED <<files, archive, events, delivered, spaced, processing,
                   processed, stats, dispatches, clients, conns>>
    /\ DownFrame

\* an exception that leaves _process_file leaves process_existing_files,
\* run_daemon (no try around line 506) and asyncio.run
ScanRaises ==
    /\ down.pc = "scanning"
    /\ cb[MainThread].pc = "escaped"
    /\ down' = [down EXCEPT !.pc = "exited", !.listener = FALSE, !.exit = 1]
    /\ StartupFrame

\* SIGTERM while the handlers of lines 539-540 are not installed yet: the
\* process is ended by the signal
SignalInScan ==
    /\ down.pc = "scanning"
    /\ down' = [down EXCEPT !.pc = "exited", !.listener = FALSE, !.exit = 143]
    /\ cb' = [cb EXCEPT ![MainThread] = [IdleCb EXCEPT !.pc = "escaped"]]
    /\ UNCHANGED <<files, archive, events, delivered, spaced, processing,
                   processed, stats, dispatches, clients, conns>>
    /\ DownFrame

\* lines 508-513: --once; stop_server and cleanup_pid follow
OnceExit ==
    /\ down.pc = "scanning"
    /\ cb[MainThread].pc = "idle"
    /\ down.scan = <<>>
    /\ down.once
    /\ down' = [down EXCEPT !.pc = "listener", !.listener = FALSE,
                            !.open = {c \in Clients :
                                        conns[c].link \in {"open", "lost"}}]
    /\ StartupFrame

\* (mutant) the observer started before process_existing_files has
\* returned
ObserverStartEarly ==
    /\ down.pc = "scanning"
    /\ ~down.once
    /\ down' = [down EXCEPT !.pc = "serving"]
    /\ StartupFrame

\* lines 516-518: the observer is started after process_existing_files
\* has returned
ObserverStart ==
    /\ down.pc = "scanning"
    /\ cb[MainThread].pc = "idle"
    /\ down.scan = <<>>
    /\ ~down.once
    /\ down' = [down EXCEPT !.pc = "serving"]
    /\ StartupFrame

NextStartup ==
    \/ \E exists \in BOOLEAN : CheckScript(exists)
    \/ WritePid
    \/ \E bound \in BOOLEAN : StartServer(bound)
    \/ ScanNext
    \/ ScanRaises
    \/ SignalInScan
    \/ OnceExit
    \/ ObserverStart
    \/ \E t \in Threads : Poll(t)
    \/ \E t \in Threads, wr \in Writes : StartDispatch(t, wr)
    \/ \E t \in Threads, outcome \in Outcomes, wr \in Writes :
          Finish(t, outcome, wr)
    \/ down.pc = "serving" /\ FileDropped(PathA, 1, FALSE)
    \/ down.pc = "serving" /\ OnEvent(ObserverThread)
    \/ Accept(1)
    \/ Drop(1)
    \/ HandlerExit(1)
    \/ Signal
    \/ StopListener
    \/ StopResume
    \/ CleanupPid

SpecStartup == InitStartup /\ [][NextStartup]_vars

(***************************************************************************)
(* Properties                                                              *)
(***************************************************************************)
\* ids strictly decrease along h: the newest entry is first
NewestFirst(h) == \A k \in 1..(Len(h) - 1) : h[k].id > h[k + 1].id

\* h holds the n newest of the entries made so far, newest first
HoldsNewest(h) == \A k \in 1..Len(h) : h[k].id = ids - k + 1

\* C3: after any sequence of completions and failures (sync or async), the
\* history in memory and the one in history.json have at most HistoryCap
\* entries, newest first; the history in memory starts with the entry made
\* last and holds the newest entries without a gap, so the one dropped
\* beyond the cap is the oldest.
C3_HistoryBounded ==
    /\ Len(store.history) <= HistoryCap
    /\ Len(store.history_file) <= HistoryCap
    /\ NewestFirst(store.history)
    /\ NewestFirst(store.history_file)
    /\ HoldsNewest(store.history)
    /\ Len(store.history) >= Min(ids, HistoryCap)

C3_Witness ==
    /\ Len(store.history) = HistoryCap
    /\ ids > HistoryCap
    /\ store.history_file = store.history
    /\ \E k \in 1..HistoryCap : ~store.history[k].success
    /\ \E k \in 1..HistoryCap : store.history[k].success

\* C1: a path delivered twice in rapid succession (the second event while
\* the first is queued or handled) is dispatched to external processing at
\* most once, hence not twice, whatever the outcome of the dispatch.
C1_OneDispatchPerBurst ==
    \A p \in AudioPaths :
        delivered[p] = 2 /\ p \notin spaced => dispatches[p] <= 1

\* callbacks past line 179 for path p: p was inserted into processing and
\* the callback has not ended
InFlight(p) ==
    {t \in Threads : cb[t].pc \in {"probing", "running"} /\ cb[t].path = p}

EarlyDispatch(c) == c.pc \in {"probing", "running"} /\ c.i < MaxWait

\* the step is an iteration of t's wait loop that does not leave the loop
PollStep(t) ==
    /\ cb[t].pc = "waiting" /\ cb'[t].pc = "waiting"
    /\ cb'[t].i = cb[t].i + 1

\* C4 as claimed: a file is not dispatched before the poll bound unless the
\* latest StableNeeded polls, taken one second apart, all read the same
\* non-zero size; a differing, zero or failed poll restarts the count.
C4_ThreeConsecutivePolls ==
    \A t \in Threads : EarlyDispatch(cb[t]) => cb[t].run >= StableNeeded

\* C4 as amended: a file is not dispatched before the poll bound unless the
\* latest StableNeeded successful polls all read the same non-zero size; a
\* differing or zero poll restarts the count, a failed poll is skipped and
\* leaves the count as it is.
C4_ThreeSuccessfulPolls ==
    [][\A t \in Threads :
          /\ EarlyDispatch(cb'[t]) => cb'[t].okrun >= StableNeeded
          /\ PollStep(t) =>
               LET sample == Stat(files[cb[t].path])
               IN  /\ sample = StatError =>
                          cb'[t].stable_count = cb[t].stable_count
                   /\ (sample = 0 \/ (sample > 0 /\ sample # cb[t].last_size))
                          => cb'[t].stable_count = 0]_vars

\* a file dispatched before the bound although a poll in between failed
C4_Witness ==
    /\ cb[1].pc = "running" /\ cb[1].i < MaxWait
    /\ cb[1].sawGone /\ cb[1].run < StableNeeded

\* C5: the wait ends after at most MaxWait polls whatever the polls read,
\* and a file that has not stabilised (also one that stays at size 0) but
\* exists when the last poll's sleep is over goes on to dispatch: its path
\* enters processing; an absent one ends the callback.
C5_BoundedWait ==
    [][\A t \in Threads :
          /\ cb'[t].i <= MaxWait
          /\ (cb[t].pc = "waiting" /\ cb[t].i = MaxWait /\ cb'[t] # cb[t]) =>
                IF files[cb[t].path].exists
                THEN /\ cb'[t].pc = "probing"
                     /\ cb[t].path \in processing'
                ELSE cb'[t].pc = "idle"]_vars

\* a file that stayed at size 0 for the whole wait is being transcribed
C5_Witness ==
    /\ cb[1].pc = "running" /\ cb[1].i = MaxWait
    /\ cb[1].last_size = 0 /\ cb[1].okrun = 0 /\ ~cb[1].sawGone
    /\ dispatches[cb[1].path] = 1

\* C6 as claimed: once a poll of the wait has found the path gone, the file
\* is not dispatched in this cycle.
C6_GoneNeverDispatched ==
    \A t \in Threads : cb[t].pc \in {"probing", "running"} => ~cb[t].sawGone

\* C6 as amended: if the path does not exist when the stability wait ends,
\* the cycle is abandoned: the callback ends without dispatch, the path is
\* added to neither processing nor processed, and the state store, the
\* history, the stats and the filesystem are unchanged.
C6_AbsentAtEndAbandons ==
    [][\A t \in Threads :
          (cb[t].pc = "waiting" /\ cb'[t].pc # "waiting"
             /\ ~files[cb[t].path].exists) =>
                /\ cb'[t].pc = "idle"
                /\ UNCHANGED <<processing, processed, store, ids, stats,
                               dispatches, files, archive>>]_vars

\* a dropped file (its marker is still there) disappeared during the wait
\* and its cycle was abandoned: nothing dispatched, nothing recorded
C6_Witness ==
    /\ delivered[PathA] = 1 /\ events = <<>> /\ cb[1].pc = "idle"
    /\ files[PathA] = [exists |-> FALSE, size |-> 0, marker |-> TRUE]
    /\ dispatches[PathA] = 0 /\ ids = 0
    /\ processing = {} /\ processed = {} /\ stats = InitStats

\* names in the archive directory
ArchiveNames(arch) == {e.name : e \in arch}

Candidate(p, k) == p.stem \o "_" \o ToString(k) \o p.suffix

\* the original name if free, else <stem>_<k><suffix> for the least free k
LeastFreeName(arch, p) ==
    IF Name(p) \notin ArchiveNames(arch) THEN Name(p)
    ELSE LET free == {k \in 1..(Cardinality(arch) + 1) :
                         Candidate(p, k) \notin ArchiveNames(arch)}
         IN  Candidate(p, CHOOSE k \in free : \A j \in free : k <= j)

\* C7: archiving never overwrites: a step that changes the archive adds one
\* entry, the source, under the original name if that is free and else under
\* <stem>_<k><suffix> with the least free k >= 1, and every file archived
\* before is still there.
C7_ArchiveNeverOverwrites ==
    [][archive' # archive =>
          \E t \in Threads :
             /\ cb[t].pc = "running"
             /\ archive \subseteq archive'
             /\ archive' \ archive =
                    {[name |-> LeastFreeName(archive, cb[t].path),
                      content |-> Name(cb[t].path)]}
             /\ LeastFreeName(archive, cb[t].path) \notin ArchiveNames(archive)
       ]_vars

\* a.wav was archived as a_2.wav beside the two files already there
C7_Witness ==
    /\ [name |-> "a_2.wav", content |-> "a.wav"] \in archive
    /\ [name |-> "a.wav", content |-> "old"] \in archive
    /\ [name |-> "a_1.wav", content |-> "old"] \in archive
    /\ ~files[PathA].exists

\* the step is the end of a run of t that _run_transcription reported as a
\* success (failure)
SuccessStep(t) ==
    cb[t].pc = "running" /\ stats'.successful = stats.successful + 1

FailureStep(t) ==
    cb[t].pc = "running" /\ stats'.failed = stats.failed + 1

\* C8: when processing succeeds for a source that has its .noarchive marker
\* beside it, source and marker are both deleted and nothing is added to
\* the archive.
C8_NoArchiveDeletesBoth ==
    [][\A t \in Threads :
          (SuccessStep(t) /\ files[cb[t].path].exists
             /\ files[cb[t].path].marker) =>
                /\ files'[cb[t].path] = NoFile
                /\ archive' = archive]_vars

\* a.wav was processed with its marker: both are gone, nothing was archived
C8_Witness ==
    /\ PathA \in processed /\ stats.last_processed = "a.wav"
    /\ files[PathA] = NoFile
    /\ \A e \in archive : e.content # "a.wav"

\* the history holds no record of a failed write to state.json or
\* history.json
NoDiskError(h) == \A k \in 1..Len(h) : h[k].error # DiskErrorText

\* C9: after processing reports success, in the archive branch and in the
\* .noarchive branch, exactly one history entry is recorded for the file,
\* with success = TRUE, and no failure entry; the status is idle when the
\* callback returns; the path is in processed and not in processing.
\* (Stated for the runs that end with the source still in place, with no
\* write of the state store failing and with the callback returning.)
C9_SuccessRecordedOnce ==
    [][\A t \in Threads :
          (SuccessStep(t) /\ files[cb[t].path].exists
             /\ NoDiskError(store'.history) /\ cb'[t].pc # "escaped") =>
             /\ store'.history =
                    Prepend(store.history,
                            CompletedEntry(ids + 1, Name(cb[t].path)))
             /\ ids' = ids + 1
             /\ store'.status = "idle"
             /\ cb'[t].pc = "idle"
             /\ cb[t].path \in processed'
             /\ cb[t].path \notin processing']_vars

\* C10: a failed run (non-zero exit, timeout, raised exception) is terminal
\* for the dispatch: exactly one history entry with success = FALSE and a
\* non-empty error text is prepended, the status becomes error with that
\* text, the active job is cleared and the path leaves processing.
C10_FailureRecordedOnce ==
    [][\A t \in Threads :
          FailureStep(t) =>
             \E e \in ErrorTexts :
                /\ e # ""
                /\ store'.history =
                       Prepend(store.history,
                               FailedEntry(ids + 1, Name(cb[t].path), e))
                /\ ids' = ids + 1
                /\ store'.status = "error"
                /\ store'.error_message = e
                /\ store'.current = NoJob
                /\ cb'[t].pc = "idle"
                /\ cb[t].path \notin processing']_vars

\* events naming p that are still queued
Queued(p) == Cardinality({k \in 1..Len(events) : events[k] = p})

\* C11: a failed dispatch leaves the path out of processed and out of
\* processing with the callback returned, so that a later event naming the
\* path passes the check of line 166 and is dispatched again; and a path is
\* never dispatched more often than events naming it were handled (no
\* automatic retry).
C11_FailedPathRetriable ==
    /\ [](\A p \in AudioPaths : dispatches[p] <= delivered[p] - Queued(p))
    /\ [][\A t \in Threads :
             FailureStep(t) =>
                /\ cb[t].path \notin processed'
                /\ cb[t].path \notin processing'
                /\ cb'[t].pc = "idle"]_vars

\* C12: when a callback that had inserted its path into processing has
\* ended, by return or by an exception, the path is not in processing: every
\* path in processing belongs to a callback that is still running.
C12_ProcessingCleared ==
    \A p \in processing : InFlight(p) # {}

\* the fields of the StateManager held in memory
Mem(s) ==
    [status |-> s.status, current |-> s.current, queue |-> s.queue,
     error_message |-> s.error_message, history |-> s.history]

\* what the mutator op leaves in memory when it runs to its end, over the
\* arguments it may be called with
Totals(s, id, op) ==
    CASE op = "set_idle" -> {Mem(set_idle(s, TRUE).s)}
      [] op = "set_transcribing_sync" ->
            {Mem(set_transcribing_sync(s, f, TRUE).s) : f \in StoreNames}
      [] op = "update_queue" ->
            {Mem(update_queue(s, q, TRUE).s) : q \in Queues}
      [] op = "set_completed_sync" ->
            {Mem(set_completed_sync(s, id, f, TRUE, TRUE).s) : f \in StoreNames}
      [] op = "on_transcription_complete" ->
            {Mem(on_transcription_complete(s, id, f, TRUE, TRUE).s) :
                f \in StoreNames}
      [] op \in {"set_failed_sync", "on_transcription_failed"} ->
            {Mem(set_failed_sync(s, id, x[1], x[2], TRUE, TRUE).s) :
                x \in StoreNames \X ErrorTexts}
      [] OTHER -> {}

\* C13: every mutator is total: whether or not the writes of state.json and
\* history.json succeed, the call returns normally (no exception reaches the
\* caller) and the memory holds the value the mutator sets.
C13_MutatorsTotal ==
    [][/\ ~call'.exc.raised
       /\ Mem(store') \in Totals(store, ids + 1, call'.op)]_vars

\* the constructor has run to its end
Constructed == call.op = "__init__" /\ ~call.exc.raised

\* C14: whatever history.json holds (absent, not JSON, JSON of any shape),
\* the constructor does not raise because of it, and the history it leaves
\* is empty or holds the stored entries.
C14_ConstructorNeverFatal ==
    call.op = "__init__" =>
       /\ call.exc.raised => call.exc.error = DiskErrorText
       /\ ~call.exc.raised =>
             store.history \in
                {<<>>, LoadedHistory(Len(disk0.history_json.items))}

\* C15: after construction, whatever state.json held before, the state in
\* memory and state.json both hold status idle, no current job and no error
\* message.
C15_FreshIdleState ==
    Constructed =>
       /\ store.status = "idle"
       /\ store.current = NoJob
       /\ store.error_message = NoError
       /\ store.state_file.status = "idle"
       /\ store.state_file.current = NoJob
       /\ store.state_file.error_message = NoError

\* constructed over the transcribing snapshot of a run that crashed
C15_Witness ==
    /\ Constructed
    /\ disk0.state_json.status = "transcribing"
    /\ disk0.state_json.current = [filename |-> "stale.wav"]
    /\ store.state_file.status = "idle"

\* C16: every mutator the engine invokes hands an event to the Bridge: a
\* step of the engine that changes the StateManager's state in memory adds
\* an event to those handed over for broadcast.
C16_EngineMutatorsEmit ==
    [][Mem(store') # Mem(store) => Len(emitted') = Len(emitted) + 1]_vars

\* the events handed over for broadcast that name filename
EventsOf(es, kind, filename) ==
    {k \in 1..Len(es) : es[k].event = kind /\ es[k].filename = filename}

\* C17: for every dispatched file a started event with the file's name is
\* submitted before the subprocess is started, and when the run has ended
\* exactly one terminal event for the file: completed after a success,
\* failed after a failure.
C17_StartedThenTerminal ==
    [][\A t \in Threads :
          LET f == Name(cb[t].path)
          IN  /\ (cb[t].pc = "probing" /\ cb'[t].pc = "running") =>
                    EventsOf(emitted', "started", f) # {}
              /\ SuccessStep(t) =>
                    /\ Cardinality(EventsOf(emitted', "completed", f))
                          = Cardinality(EventsOf(emitted, "completed", f)) + 1
                    /\ EventsOf(emitted', "failed", f)
                          = EventsOf(emitted, "failed", f)
              /\ FailureStep(t) =>
                    /\ Cardinality(EventsOf(emitted', "failed", f))
                          = Cardinality(EventsOf(emitted, "failed", f)) + 1
                    /\ EventsOf(emitted', "completed", f)
                          = EventsOf(emitted, "completed", f)]_vars

\* C18: the first message written to an accepted connection is the state
\* snapshot: a writer is in the client list only with its snapshot written,
\* and no event is written to a connection before it.
C18_SnapshotFirst ==
    \A c \in Clients :
       /\ (c \in Range(clients) \/ conns[c].link # "none") =>
             conns[c].wire # <<>>
       /\ conns[c].wire # <<>> => conns[c].wire[1].event = "state"

\* a client accepted while a broadcast was suspended in its fan-out has got
\* its snapshot and after it the event, which was emitted before it came
C18_Witness ==
    \E c \in Clients :
       /\ Len(conns[c].wire) >= 2
       /\ conns[c].wire[1].event = "state"
       /\ conns[c].wire[2].event # "state"
       /\ conns[c].wire[2].timestamp <= conns[c].since

\* no broadcast of the n-th event is still suspended
Settled(n) == \A k \in 1..Len(tasks) : tasks[k].ev # emitted[n]

\* C20: broadcast does not raise, and when it has ended every client that
\* was connected when the event was emitted and still is has the event on
\* its connection, whatever happened to the other clients.
C20_BroadcastReachesAll ==
    /\ call.op = "broadcast" => ~call.exc.raised
    /\ \A c \in Clients :
          (conns[c].link = "open" /\ c \in Range(clients)) =>
             \A n \in (conns[c].since + 1)..Len(emitted) :
                Settled(n) => emitted[n] \in Range(conns[c].wire)

\* the step accepts client c: its snapshot is the first message on its wire
Accepted(c) == conns[c].link = "none" /\ conns'[c].link = "open"

\* C19: a client that connects while a job is in flight gets a snapshot
\* with status transcribing whose current job is the active one, and no
\* snapshot is half updated (transcribing without a job, or idle with one);
\* the snapshot carries the min(SnapshotCap, n) newest history entries.
C19_SnapshotMatchesJob ==
    [][\A c \in Clients :
          Accepted(c) =>
             LET m == conns'[c].wire[1]
             IN  /\ mut.job # "" =>
                       /\ m.status = "transcribing"
                       /\ m.current = [filename |-> mut.job]
                 /\ m.status = "transcribing" => m.current # NoJob
                 /\ m.status = "idle" => m.current = NoJob
                 /\ m.history = Take(store.history, SnapshotCap)
                 /\ Len(m.history) = Min(SnapshotCap, Len(store.history))]_vars

\* the step ends the broadcast of the n-th event, which was suspended
Resumed(n) == ~Settled(n) /\ Settled(n)'

\* C21: when a broadcast that was suspended in its fan-out ends, whichever
\* handlers removed their clients from the list meanwhile, it has not raised
\* and every client that was connected when the event was emitted and still
\* is has the event on its connection.
C21_DisconnectMidBroadcast ==
    [][\A n \in 1..Len(emitted) :
          Resumed(n) =>
             /\ ~call'.exc.raised
             /\ \A c \in Clients :
                   ( /\ conns'[c].link = "open"
                     /\ c \in Range(clients')
                     /\ conns'[c].since < n ) =>
                      emitted[n] \in Range(conns'[c].wire)]_vars

\* a message that broadcast wrote
IsBroadcast(m) == m.event \in {"started", "completed", "failed"}

\* C22: on every connection the broadcast events appear in the order in
\* which they were emitted, also when broadcasts overlap because one of
\* them is suspended in drain().
C22_PerClientFifo ==
    \A c \in Clients :
       \A i, j \in 1..Len(conns[c].wire) :
          ( /\ i < j
            /\ IsBroadcast(conns[c].wire[i])
            /\ IsBroadcast(conns[c].wire[j]) ) =>
             conns[c].wire[i].timestamp < conns[c].wire[j].timestamp

\* the step is the handler of c reading a line
ReadLine(c) == conns'[c].reqs = conns[c].reqs + 1

\* a status or a history request
Recognized(line) ==
    line.utf8 /\ line.json = "object" /\ line.command \in {"status", "history"}

\* C23: a line that is not a recognized request (not UTF-8, not JSON, JSON
\* that is not an object, an object without command, an unknown command)
\* is ignored: nothing is written, the handler reads on, the connection
\* stays open and the client stays in the list.
C23_MalformedIgnored ==
    [][\A c \in Clients :
          (ReadLine(c) /\ ~Recognized(conns'[c].line)) =>
             /\ conns'[c].wire = conns[c].wire
             /\ conns'[c].link = "open"
             /\ conns'[c].pc = "reading"
             /\ ~conns'[c].exc.raised
             /\ c \in Range(clients) => c \in Range(clients')]_vars

\* what the step has written to the connection of c
Written(c) ==
    SubSeq(conns'[c].wire, Len(conns[c].wire) + 1, Len(conns'[c].wire))

\* C24: a status request is answered, on the requesting connection only,
\* with the current status, job and queue; a history request with the
\* min(ReplyCap, n) newest history entries, newest first; neither changes
\* the StateManager's state or the other connections, and no event is
\* emitted.
C24_RequestsAnswered ==
    [][\A c \in Clients :
          (ReadLine(c) /\ Recognized(conns'[c].line)) =>
             /\ Len(Written(c)) = 1
             /\ conns'[c].line.command = "status" =>
                   Written(c)[1] = [event |-> "state",
                                    status |-> store.status,
                                    current |-> store.current,
                                    queue |-> store.queue]
             /\ conns'[c].line.command = "history" =>
                   LET h == Written(c)[1].transcripts
                   IN  /\ Written(c)[1].event = "history"
                       /\ Len(h) = Min(ReplyCap, Len(store.history))
                       /\ \A k \in 1..Len(h) : h[k] = store.history[k]
                       /\ HoldsNewest(h)
             /\ store' = store
             /\ emitted' = emitted
             /\ clients' = clients
             /\ \A d \in Clients \ {c} : conns'[d] = conns[d]]_vars

\* a connection has got the reply to a status request that showed the job
\* in hand, and a history reply cut to ReplyCap entries while the history
\* held more
C24_Witness ==
    \E c \in Clients :
       /\ Len(store.history) > ReplyCap
       /\ \E k \in 2..Len(conns[c].wire) :
             /\ conns[c].wire[k].event = "history"
             /\ conns[c].wire[k].transcripts = Take(store.history, ReplyCap)
       /\ \E k \in 2..Len(conns[c].wire) :
             /\ conns[c].wire[k].event = "state"
             /\ conns[c].wire[k].status = "idle"
       /\ \E d \in Clients \ {c} : Len(conns[d].wire) = 1

\* C25: when stop_server has returned, every connection that was open when
\* it was called is closed, the client list is empty and the endpoint file
\* is removed, however the handlers that remove themselves from the list
\* interleaved with it.
C25_StopClosesAll ==
    down.pc \in {"stopped", "exited"} =>
       /\ \A c \in down.open : conns[c].link = "closed"
       /\ clients = <<>>
       /\ ~down.socket_file

\* the order of the shutdown as far as it shows in a state
InOrder ==
    /\ ~down.listener => \A t \in Threads : cb[t].pc \notin Blocked
    /\ down.closed # {} => ~down.listener
    /\ ~down.socket_file =>
          \A c \in Clients : conns[c].link \in {"none", "closed"}
    /\ ~down.pid_file => ~down.socket_file

\* C26: after the signal no new filesystem event is taken up; the listener
\* is closed only when the file in hand is finished; connections are closed
\* only after the listener; the endpoint file is removed only when every
\* connection is closed, and the PID file only after the endpoint file.
C26_ShutdownOrder ==
    [][ /\ down.pc # "serving" =>
              /\ events' = events
              /\ \A t \in Threads : cb[t].pc = "idle" => cb'[t].pc = "idle"
        /\ InOrder' ]_vars

\* C27: a failure never stalls ingestion: whatever went wrong with a file
\* (exit code, timeout, exception, an error inside the handler), no
\* exception leaves _process_file, so the observer's thread is back at its
\* queue and takes up the next event.
C27_FailureNeverStalls ==
    \A t \in Threads : cb[t].pc # "escaped"

\* C28: every read of the StateManager's fields by the server loop (the
\* snapshot, the status reply, the history reply) is excluded from the
\* mutators of the callback thread: the loop does not read while a mutator
\* has made some of its assignments and not yet the others.
C28_ReadsUnderLock ==
    [][\A c \in Clients :
          (Accepted(c) \/ ReadLine(c)) => mut.pc <= 1]_vars

\* the step is a call of _emit_event that returns
Submitted == bridge'.calls = bridge.calls + 1

\* C29: _emit_event, called on the callback thread, returns without an
\* exception and without waiting for the broadcast: the step writes to no
\* connection and changes no state of the StateManager; with a state
\* manager and a loop attached the coroutine is queued on the loop behind
\* those queued before, and with either missing nothing is queued.
C29_SubmitNeverBlocks ==
    [][Submitted =>
          /\ ~call'.exc.raised
          /\ UNCHANGED <<store, emitted, clients, conns, tasks>>
          /\ (bridge.state_manager /\ bridge.event_loop) =>
                /\ Len(bridge'.pending) = Len(bridge.pending) + 1
                /\ SubSeq(bridge'.pending, 1, Len(bridge.pending))
                      = bridge.pending
          /\ ~(bridge.state_manager /\ bridge.event_loop) =>
                bridge'.pending = bridge.pending]_vars

\* two calls have returned while the broadcast of the first coroutine is
\* suspended in drain() and the second coroutine has not run yet
C29_Witness ==
    /\ bridge.calls = 2
    /\ Len(bridge.pending) = 1
    /\ Len(tasks) = 1
    /\ call.op = "_emit_event"

\* a handler without a loop: the calls have returned and nothing was queued
SubmittedDetached ==
    /\ bridge.calls = 2
    /\ ~bridge.event_loop
    /\ bridge.pending = <<>>

\* the mutators that start a job and those that end one
Starters == {"set_transcribing_sync", "on_transcription_start"}
Enders ==
    {"set_idle", "set_completed_sync", "set_failed_sync",
     "on_transcription_complete", "on_transcription_failed"}

\* C30: after every mutator, sync or async, whether it returned or raised,
\* there is a current job exactly when the status is transcribing; a job
\* appears only in set_transcribing_sync / on_transcription_start and
\* disappears only in set_idle and the completion and failure mutators;
\* on_progress leaves the job as it is.
C30_JobIffTranscribing ==
    [][ /\ (store'.current # NoJob) <=> (store'.status = "transcribing")
        /\ (store.current = NoJob /\ store'.current # NoJob) =>
              call'.op \in Starters
        /\ (store.current # NoJob /\ store'.current = NoJob) =>
              call'.op \in Enders
        /\ call'.op \in Starters =>
              (~call'.exc.raised => store'.current # NoJob)
        /\ call'.op \in Enders =>
              (~call'.exc.raised => store'.current = NoJob)
        /\ call'.op = "on_progress" =>
              store'.current = store.current ]_vars

\* a progress update that came after the job had failed has returned: the
\* status is error and there is no job
C30_Witness ==
    /\ call.op = "on_progress"
    /\ ~call.exc.raised
    /\ store.status = "error"
    /\ store.current = NoJob
    /\ Len(store.history) >= 1
    /\ ~store.history[1].success

\* C31: a mutator that returns has serialized what it changed: state.json
\* is the document of the state in memory when one of status, current,
\* queue, error_message changed, history.json holds the history in memory
\* when the history changed, and documents that agreed with the memory
\* before the call agree with it after.
C31_DiskFollowsMemory ==
    [][~call'.exc.raised =>
          /\ StateDoc(store') # StateDoc(store) =>
                store'.state_file = StateDoc(store')
          /\ store'.history # store.history =>
                store'.history_file = store'.history
          /\ ( /\ store.state_file = StateDoc(store)
               /\ store.history_file = store.history ) =>
                /\ store'.state_file = StateDoc(store')
                /\ store'.history_file = store'.history ]_vars

\* a failure was recorded after an earlier completion: both documents are
\* those of the memory, with status error and two new history entries
C31_Witness ==
    /\ call.op = "set_failed_sync"
    /\ ~call.exc.raised
    /\ ids >= 2
    /\ store.status = "error"
    /\ store.state_file = StateDoc(store)
    /\ store.state_file.error_message # NoError
    /\ store.history_file = store.history
    /\ Len(store.history) = HistoryCap

\* C37: after every mutator, sync or async, there is an error message
\* exactly when the status is error; in particular a completion after a
\* failure leaves the status idle and no error message.
C37_ErrorIffStatusError ==
    (store.error_message # NoError) <=> (store.status = "error")

\* the speaker tags of the document's segments that are not empty
Tags(doc) ==
    {doc.segments[k] : k \in 1..Len(doc.segments)} \ {"", "<absent>"}

\* a document that is a JSON object whose segments are a list of objects
WellFormed(doc) ==
    /\ doc.file = "json" /\ doc.top = "object" /\ doc.given = "list"
    /\ \A k \in 1..Len(doc.segments) : doc.segments[k] # "<not object>"

\* a document that is not there or cannot be read as JSON
Unparsable(doc) ==
    doc.file \in {"missing", "unreadable", "not_utf8", "not_json"}

\* C34: when a run that exited with 0 has been recorded: for a well-formed
\* result document the history entry is a success whose speaker count is
\* the number of distinct non-empty speaker tags of its segments and whose
\* language is the document's; for a missing or unparsable document it is
\* a success with language "unknown" and speaker count 0.
C34_SpeakerCount ==
    run.pc = "recorded" =>
       /\ WellFormed(run.doc) =>
             /\ store.history[1].success
             /\ run.recorded.speaker_count = Cardinality(Tags(run.doc))
             /\ run.recorded.language =
                   (IF run.doc.language = "<absent>" THEN "unknown"
                    ELSE run.doc.language)
       /\ Unparsable(run.doc) =>
             /\ store.history[1].success
             /\ stats.successful = 1
             /\ run.recorded = [language |-> "unknown", speaker_count |-> 0]

\* C33: a path that is in the processed set stays in it, and the handling
\* of a later event that names it changes nothing but the event queue: the
\* trackers, the callback, the StateManager with its history, the stats,
\* the files and the archive are as before.
C33_ProcessedIsFinal ==
    [][ /\ \A p \in processed : p \in processed'
        /\ ( /\ events # <<>> /\ events' = Tail(events)
             /\ Head(events) \in processed )
           => UNCHANGED <<processing, processed, cb, store, ids, stats, files,
                          archive, dispatches, emitted>> ]_vars

\* the second event for a processed path has been handled
C33_Witness ==
    /\ PathA \in processed /\ delivered[PathA] = 2 /\ events = <<>>
    /\ dispatches[PathA] = 1 /\ stats.total_processed = 1
    /\ cb[1].pc = "idle"

\* a dispatch is between line 182 and the end of the subprocess
DispatchInFlight == \E t \in Threads : cb[t].pc \in {"probing", "running"}

\* every end of a subprocess counts once in total_processed and once in
\* exactly one of successful and failed, and no other step counts
CountedOnce ==
    [][ /\ (cb[1].pc = "running" /\ cb'[1].pc # "running") =>
             /\ stats'.total_processed = stats.total_processed + 1
             /\ \/ /\ stats'.successful = stats.successful + 1
                   /\ stats'.failed = stats.failed
                \/ /\ stats'.successful = stats.successful
                   /\ stats'.failed = stats.failed + 1
        /\ ~(cb[1].pc = "running" /\ cb'[1].pc # "running") =>
             /\ stats'.total_processed = stats.total_processed
             /\ stats'.successful = stats.successful
             /\ stats'.failed = stats.failed ]_vars

\* C36: the stats are consistent: total_processed = successful + failed,
\* every dispatch is counted once, in exactly one of the two, also when the
\* steps after a success raise, and current_file is set only while a
\* dispatch is in flight.
C36_StatsConsistent ==
    /\ [](stats.total_processed = stats.successful + stats.failed)
    /\ CountedOnce
    /\ [](stats.current_file # "" => DispatchInFlight)

\* the same with current_file left to the runs in which no write of the
\* state store fails
StatsConsistentNoDiskError ==
    /\ [](stats.total_processed = stats.successful + stats.failed)
    /\ CountedOnce
    /\ [](NoDiskError(store.history) =>
             (stats.current_file # "" => DispatchInFlight))

\* the threads whose transcription subprocess is running
Running == {t \in Threads : cb[t].pc = "running"}

\* C32: at most one file is in flight at any time, over the startup scan
\* and the observer's callbacks: the processing set holds at most one path
\* and at most one subprocess is running.
C32_OneInFlight ==
    /\ Cardinality(processing) <= 1
    /\ Cardinality(Running) <= 1
    /\ \A t \in Running : processing = {cb[t].path}

\* the scan has handled a file and the observer's thread runs the next
C32_Witness ==
    /\ down.pc = "serving" /\ stats.total_processed = 1
    /\ cb[ObserverThread].pc = "running" /\ cb[MainThread].pc = "idle"
    /\ processing = {PathA}

\* the filenames of a list of paths
NamesOf(seq) == [k \in 1..Len(seq) |-> Name(seq[k])]

\* the files that have been detected and wait for the one in flight: the
\* rest of the startup listing, then the audio files of the events the
\* observer has queued
Waiting ==
    NamesOf(down.scan) \o NamesOf(SelectSeq(events, IsSupported))

\* C35: while a file is in flight, the queue of the StateManager, which
\* the snapshot reports and state.json holds, is the ordered list of the
\* filenames detected and waiting.
C35_QueueListsWaiting ==
    (\E t \in Threads : cb[t].pc \in Blocked) =>
        /\ store.queue = Waiting
        /\ Snapshot(store).queue = Waiting
        /\ store.state_file.queue = Waiting

\* run_daemon is in the startup scan or waits in its shutdown for the
\* observer's thread, and a file is in flight
JobHoldsDaemon ==
    /\ down.pc \in {"scanning", "joining"}
    /\ \E t \in Threads : cb[t].pc \in Blocked

\* C38: during the startup scan and while the shutdown waits for the file
\* in flight, the server loop is not blocked: a client that connects to
\* the listening socket is accepted and sent its snapshot without waiting
\* for the job to end.
C38_LoopServesDuringJob ==
    \A c \in Clients :
        (JobHoldsDaemon /\ down.listener /\ conns[c].link = "none")
            => ENABLED Accept(c)

\* the same for the time the observer's thread has the job and run_daemon
\* waits in "await stop_event.wait()"
LoopServesWhileWatching ==
    \A c \in Clients :
        ( /\ down.pc = "serving" /\ cb[ObserverThread].pc \in Blocked
          /\ down.listener /\ conns[c].link = "none" )
            => ENABLED Accept(c)

\* update_queue has no caller: the queue is empty in every state
QueueNeverSet == store.queue = <<>> /\ store.state_file.queue = <<>>

\* the process has ended and left neither its PID file nor its socket file
ExitedClean == ~down.pid_file /\ ~down.socket_file

\* an exit out of the startup, before the observer runs and without --once
\* having completed, has a non-zero status
StartupFailureNonZero ==
    [][(down.pc \in {"start", "init", "binding"} /\ down'.pc = "exited")
          => down'.exit > 0]_vars

\* C39: the PID file exists only while the daemon runs: it is written at
\* the start and removed on every exit path (shutdown by a signal, --once,
\* a fatal startup failure such as a missing script or a socket that
\* cannot be bound); no exit leaves the PID file or the socket file, and a
\* fatal startup failure exits with a non-zero status.
C39_PidFileOnlyWhileRunning ==
    /\ [](down.pid_file => down.pc \notin {"start", "init"})
    /\ [](down.pc = "exited" => ExitedClean)
    /\ StartupFailureNonZero

\* the exits the code handles: the missing script (sys.exit before the
\* PID file is written), --once and the shutdown by a signal (status 0)
HandledExitsClean ==
    /\ [](down.pid_file => down.pc \notin {"start", "init"})
    /\ [](down.pc = "exited" /\ down.exit = 0 => ExitedClean)
    /\ [][(down.pc = "start" /\ down'.pc = "exited")
             => (ExitedClean' /\ down'.exit = 1)]_vars
    /\ StartupFailureNonZero

=============================================================================
